---- MODULE Spec2Model ----
(***************************************************************************)
(* Model of the request handlers of the media-analysis server              *)
(* (routes /video, /analyze, /tiktok-analyze) together with the            *)
(* collaborators they drive: the cache store and in-flight tracker of the  *)
(* scraper, the browser pages, the downloaders, the analyzer and the        *)
(* fire-and-forget notifier.                                                *)
(*                                                                          *)
(* A request slot runs one handler at a time.  One action is one stretch of *)
(* handler code between two awaits: the environment settles the awaited     *)
(* promise (resolve or reject, chosen with \E) and the handler runs         *)
(* synchronously up to its next await.                                      *)
(***************************************************************************)
EXTENDS Naturals, Sequences, FiniteSets, TLC

VARIABLES
    req,          \* per slot: the handler's locals, position and call history
    cache,        \* scraper cache: key -> [value, ttl]
    activePosts,  \* scraper in-flight tracker: set of post ids
    files,        \* temporary files present on disk (paths)
    runs,         \* number of requests started so far
    apiKey,       \* whether GOOGLE_GEMINI_API_KEY is set in the environment
    notifiedKeys, \* cache keys whose analysis text has gone to updateContent
    disturbed     \* a collaborator has failed or answered with nothing usable,
                  \* or a cache entry has expired

vars == <<req, cache, activePosts, files, runs, apiKey, notifiedKeys, disturbed>>

\* ------------------------------------------------------------------ bounds

\* Total number of requests the clients issue.
MaxRuns == 2

\* Request slots (concurrent requests in progress).
Slots == 1 .. 2

\* ------------------------------------------------------------------ inputs

NoUrl == [scheme |-> "", host |-> "", seg |-> "", id |-> ""]

IgUrl     == [scheme |-> "https", host |-> "www.instagram.com", seg |-> "p", id |-> "p1"]
IgReelUrl == [scheme |-> "https", host |-> "instagram.com", seg |-> "reel", id |-> "p1"]
BadUrl    == [scheme |-> "http", host |-> "www.instagram.com", seg |-> "p", id |-> "p1"]
YtUrl     == [scheme |-> "https", host |-> "youtube.com", seg |-> "shorts", id |-> "y1"]
TtUrl     == [scheme |-> "https", host |-> "www.tiktok.com", seg |-> "video", id |-> "t1"]

VideoUrls   == {NoUrl, BadUrl, IgUrl}
AnalyzeUrls == {NoUrl, BadUrl, IgReelUrl, YtUrl}
TikTokUrls  == {NoUrl, TtUrl}
ContentIds  == {"", "c1"}

\* The url as the string the client sent.
Raw(u) == u.scheme \o "://" \o u.host \o "/" \o u.seg \o "/" \o u.id

\* Errors: status 0 stands for an error object without statusCode.
Err(status, message) == [status |-> status, message |-> message]
NoErr == Err(0, "")

\* ------------------------------------------------------------------ pages

Asset(t, u) == [type |-> t, url |-> u]

\* An item of carousel_media, or the media of a single post: the url of
\* image_versions2.candidates[0] and of video_versions[0], "" when absent.
Media(img, vid) == [image |-> img, video |-> vid]

\* A JSON object of a script tag: its code, and either carousel_media or its
\* own image and video.
CarouselObj(code, items) ==
    [code |-> code, carousel |-> TRUE, items |-> items, media |-> Media("", "")]

SingleObj(code, img, vid) ==
    [code |-> code, carousel |-> FALSE, items |-> <<>>, media |-> Media(img, vid)]

\* The rendered page: the not-available marker, the login form, the JSON
\* objects of each script tag with "code" in it, the src of the <video>
\* element and the og:video meta content.
Html(nf, login, scripts, src, og) ==
    [isNotFound |-> nf, isLoginPage |-> login, scripts |-> scripts,
     videoSrc |-> src, ogVideo |-> og]

NoHtml == Html(FALSE, FALSE, <<>>, "", "")

\* What the rendered post page of post p1 can contain.
Htmls == {
    Html(TRUE, FALSE, <<>>, "", ""),
    Html(FALSE, TRUE, <<>>, "", ""),
    NoHtml,
    Html(FALSE, FALSE, <<<<SingleObj("p1", "blob:i1", "")>>>>, "blob:v1", ""),
    Html(FALSE, FALSE, <<>>, "", "https://cdn/v1.mp4"),
    Html(FALSE, FALSE, <<<<SingleObj("p1", "", "https://cdn/v1.mp4")>>>>,
         "https://cdn/v1.mp4", ""),
    Html(FALSE, FALSE, <<<<SingleObj("p1", "https://cdn/i1.jpg", "")>>>>, "", ""),
    Html(FALSE, FALSE, <<<<SingleObj("p1", "https://cdn/i1.jpg", "https://cdn/v1.mp4")>>>>,
         "", ""),
    Html(FALSE, FALSE, <<<<CarouselObj("p1", <<Media("https://cdn/i1.jpg", ""),
                                               Media("https://cdn/i2.jpg", "")>>)>>>>,
         "", "")
}

\* Urls as clients send them: any scheme, host, path and last segment.
ExtractUrls ==
    {NoUrl} \cup
    [scheme : {"https", "http"},
     host   : {"www.instagram.com", "instagram.com", "example.com"},
     seg    : {"p", "reels", "tv"},
     id     : {"", "test123", "test123?img_index=1", "%2Ftest123"}]

\* The carousel page of the extraction test: an image item, a video item
\* with its own image, an image item.
CarouselItems ==
    << Media("https://instagram.example.com/img1.jpg", ""),
       Media("https://instagram.example.com/video1_thumb.jpg",
             "https://instagram.example.com/video1.mp4"),
       Media("https://instagram.example.com/img2.jpg", "") >>

CarouselHtml == Html(FALSE, FALSE, <<<<CarouselObj("test123", CarouselItems)>>>>, "", "")

\* The same carousel with a video item that has no image of its own.
PlainCarouselHtml ==
    Html(FALSE, FALSE,
         <<<<CarouselObj("test123",
                         << CarouselItems[1],
                            Media("", "https://instagram.example.com/video1.mp4"),
                            CarouselItems[3] >>)>>>>, "", "")

\* Urls a script can hold: direct, blob:, escaped, and nothing but an escape
\* character.
ImageUrlInputs ==
    {"", "https://cdn/i1.jpg", "blob:i1", "https:\\/\\/cdn\\/i1.jpg?a=1\\u0026b=2", "\\"}

VideoUrlInputs == {"", "https://cdn/v1.mp4", "blob:v1", "\\"}

ScriptInputs ==
    {<<>>}
    \cup {<<<<SingleObj("test123", i, v)>>>> : i \in ImageUrlInputs, v \in VideoUrlInputs}
    \cup {<<<<CarouselObj("test123", <<Media(i, v), Media("https://cdn/i1.jpg", "")>>)>>>> :
              i \in ImageUrlInputs, v \in VideoUrlInputs}
    \cup {<<<<CarouselObj("test123", <<>>)>>>>,
          <<<<SingleObj("other", "https://cdn/i1.jpg", "")>>>>,
          <<<<SingleObj("test123", "https://cdn/i1.jpg", ""),
              SingleObj("test123", "", "")>>>>,
          <<<<SingleObj("test123", "https://cdn/i1.jpg", "")>>,
            <<CarouselObj("test123", <<Media("", "https://cdn/v1.mp4")>>)>>>>}

HtmlInputs ==
    {Html(TRUE, FALSE, <<>>, "", ""), Html(FALSE, TRUE, <<>>, "", ""),
     CarouselHtml, PlainCarouselHtml}
    \cup {Html(FALSE, FALSE, sc, src, og) :
              sc \in ScriptInputs, src \in VideoUrlInputs,
              og \in {"", "https://cdn/v1.mp4"}}

IsBlob(u) == Len(u) >= 5 /\ SubSeq(u, 1, 5) = "blob:"


\* ------------------------------------------------------------------ utils

IgHosts == {"www.instagram.com", "instagram.com"}

Ok(v) == [ok |-> TRUE, value |-> v, err |-> NoErr]
Throw(e) == [ok |-> FALSE, value |-> "", err |-> e]

\* The characters of the capture group ([a-zA-Z0-9_-]+).
IdAlphabet == "abcdefghijklmnopqrstuvwxyzABCDEFGHIJKLMNOPQRSTUVWXYZ0123456789_-"

IdChars == {SubSeq(IdAlphabet, i, i) : i \in 1..Len(IdAlphabet)}

\* What the capture group takes from the last segment: the id characters at
\* its start, as many as there are.
RECURSIVE IdPrefix(_)
IdPrefix(id) ==
    IF id = "" \/ SubSeq(id, 1, 1) \notin IdChars THEN ""
    ELSE SubSeq(id, 1, 1) \o IdPrefix(SubSeq(id, 2, Len(id)))

\* Variant: the patterns accept any scheme.
getPostIdAnyScheme(postUrl) ==
    IF postUrl = NoUrl
    THEN Throw(Err(400, "Post URL is required"))
    ELSE LET igHead    == postUrl.host \in IgHosts
             postCheck == igHead /\ postUrl.seg = "p" /\ IdPrefix(postUrl.id) # ""
             reelCheck == igHead /\ postUrl.seg \in {"reel", "reels"}
                                 /\ IdPrefix(postUrl.id) # ""
             postId    == IF reelCheck \/ postCheck THEN IdPrefix(postUrl.id) ELSE ""
         IN IF postId = ""
            THEN Throw(Err(400, "Invalid URL, post ID not found"))
            ELSE Ok(postId)

\* getPostId: the post and reel patterns are anchored at the start of the
\* url only; the reel match, when there is one, overrides the post match.
getPostId(postUrl) ==
    IF postUrl = NoUrl
    THEN Throw(Err(400, "Post URL is required"))
    ELSE LET igHead    == postUrl.scheme = "https" /\ postUrl.host \in IgHosts
             postCheck == igHead /\ postUrl.seg = "p" /\ IdPrefix(postUrl.id) # ""
             reelCheck == igHead /\ postUrl.seg \in {"reel", "reels"}
                                 /\ IdPrefix(postUrl.id) # ""
             postId    == IF reelCheck \/ postCheck THEN IdPrefix(postUrl.id) ELSE ""
         IN IF postId = ""
            THEN Throw(Err(400, "Invalid URL, post ID not found"))
            ELSE Ok(postId)

isYouTubeUrl(url) ==
    /\ url.host \in {"youtube.com", "youtu.be"}
    /\ url.seg \in {"watch", "embed", "v", "shorts", ""}
    /\ url.id # ""

\* The filter of getAllMediaAssets: drop blob: urls and urls already seen.
RECURSIVE FilterAssets(_, _)
FilterAssets(assets, seen) ==
    IF assets = <<>> THEN <<>>
    ELSE LET a == Head(assets)
         IN IF IsBlob(a.url) \/ a.url \in seen
            THEN FilterAssets(Tail(assets), seen)
            ELSE <<a>> \o FilterAssets(Tail(assets), seen \cup {a.url})

\* url.replace(/\\u0026/g, '&'): every backslash-u0026 becomes an ampersand.
RECURSIVE ReplaceAmp(_)
ReplaceAmp(u) ==
    IF u = "" THEN ""
    ELSE IF Len(u) >= 6 /\ SubSeq(u, 1, 6) = "\\u0026"
    THEN "&" \o ReplaceAmp(SubSeq(u, 7, Len(u)))
    ELSE SubSeq(u, 1, 1) \o ReplaceAmp(SubSeq(u, 2, Len(u)))

\* url.replace(/\\/g, ''): every backslash left is dropped.
RECURSIVE DropBackslashes(_)
DropBackslashes(u) ==
    IF u = "" THEN ""
    ELSE (IF SubSeq(u, 1, 1) = "\\" THEN "" ELSE SubSeq(u, 1, 1))
             \o DropBackslashes(SubSeq(u, 2, Len(u)))

Unescape(u) == DropBackslashes(ReplaceAmp(u))

\* Variant: an item with a video gives the video only, not its image.
RECURSIVE ItemAssetsVideoFirst(_)
ItemAssetsVideoFirst(items) ==
    IF items = <<>> THEN <<>>
    ELSE LET item == Head(items)
             img == IF item.image # "" /\ item.video = ""
                    THEN <<Asset("image", Unescape(item.image))>> ELSE <<>>
             vid == IF item.video # ""
                    THEN <<Asset("video", Unescape(item.video))>> ELSE <<>>
         IN img \o vid \o ItemAssetsVideoFirst(Tail(items))

\* The image asset, then the video asset, of each item that has the url.
RECURSIVE ItemAssets(_)
ItemAssets(items) ==
    IF items = <<>> THEN <<>>
    ELSE LET item == Head(items)
             img == IF item.image # ""
                    THEN <<Asset("image", Unescape(item.image))>> ELSE <<>>
             vid == IF item.video # ""
                    THEN <<Asset("video", Unescape(item.video))>> ELSE <<>>
         IN img \o vid \o ItemAssets(Tail(items))

extractMediaFromObject(obj) ==
    IF obj.carousel
    THEN [assets |-> ItemAssets(obj.items), single |-> <<>>]
    ELSE [assets |-> <<>>, single |-> ItemAssets(<<obj.media>>)]

findObjectsWithCode(script, targetCode) ==
    SelectSeq(script, LAMBDA obj : obj.code = targetCode)

\* The loop over the matching objects of one script: the first carousel with
\* assets ends it, any other object replaces mediaAssets with its own media.
RECURSIVE FromObjects(_, _)
FromObjects(objs, mediaAssets) ==
    IF objs = <<>> THEN mediaAssets
    ELSE LET e == extractMediaFromObject(Head(objs))
         IN IF e.assets # <<>> THEN e.assets ELSE FromObjects(Tail(objs), e.single)

\* The loop over the script tags.
RECURSIVE FromScripts(_, _, _)
FromScripts(scripts, postId, mediaAssets) ==
    IF scripts = <<>> THEN mediaAssets
    ELSE FromScripts(Tail(scripts), postId,
                     FromObjects(findObjectsWithCode(Head(scripts), postId), mediaAssets))

\* getAllMediaAssets(html, postId): the assets of the page, or the typed
\* error it throws.
\* Variant: a page with nothing but blob: urls is reported as a page without
\* media.
getAllMediaAssetsBlobAsNoMedia(html, postId) ==
    IF html.isNotFound
    THEN Throw(Err(404, "This post is private or does not exist"))
    ELSE IF html.isLoginPage
    THEN Throw(Err(500, "Something went wrong, please try again"))
    ELSE IF postId = ""
    THEN Throw(Err(400, "Post ID is required for media extraction"))
    ELSE LET fromScripts == FromScripts(html.scripts, postId, <<>>)
             withElement ==
                 IF html.videoSrc # "" /\ ~IsBlob(html.videoSrc)
                 THEN Append(fromScripts, Asset("video", html.videoSrc))
                 ELSE fromScripts
             withMeta ==
                 IF withElement = <<>> /\ html.ogVideo # ""
                 THEN <<Asset("video", html.ogVideo)>>
                 ELSE withElement
             filtered == FilterAssets(withMeta, {})
         IN IF filtered = <<>>
            THEN Throw(Err(404, "This post does not contain any media"))
            ELSE Ok(filtered)

getAllMediaAssets(html, postId) ==
    IF html.isNotFound
    THEN Throw(Err(404, "This post is private or does not exist"))
    ELSE IF html.isLoginPage
    THEN Throw(Err(500, "Something went wrong, please try again"))
    ELSE IF postId = ""
    THEN Throw(Err(400, "Post ID is required for media extraction"))
    ELSE LET fromScripts == FromScripts(html.scripts, postId, <<>>)
             withElement ==
                 IF html.videoSrc # "" /\ ~IsBlob(html.videoSrc)
                 THEN Append(fromScripts, Asset("video", html.videoSrc))
                 ELSE fromScripts
             withMeta ==
                 IF withElement = <<>> /\ html.ogVideo # ""
                 THEN <<Asset("video", html.ogVideo)>>
                 ELSE withElement
             filtered == FilterAssets(withMeta, {})
         IN IF withMeta = <<>>
            THEN Throw(Err(404, "This post does not contain any media"))
            ELSE IF filtered = <<>>
            THEN Throw(Err(400, "Unable to extract direct media URLs (blob URLs detected)"))
            ELSE Ok(filtered)

\* ------------------------------------------------------------------ analyzer

\* Texts the analysis service can answer with.
Texts == {"", "Eiffel Tower, Paris", "{\"locations\":[]}"}

IsJsonText(text) == text = "{\"locations\":[]}"

\* The parse of the analyze* methods: JSON.parse of the text, and on a parse
\* error the fallback object that carries the raw text.
ParseResult(text) ==
    IF IsJsonText(text)
    THEN [parsed |-> TRUE, raw_response |-> ""]
    ELSE [parsed |-> FALSE, raw_response |-> text]

\* Variant: a text that does not parse is reported as a failed analysis.
AnalysisResultStrict(text) ==
    [success |-> IsJsonText(text), result |-> ParseResult(text), raw_response |-> text]

AnalysisResult(text) ==
    [success |-> TRUE, result |-> ParseResult(text), raw_response |-> text]

NoAnalysis == [success |-> FALSE, result |-> ParseResult(""), raw_response |-> ""]

\* analysisResult.raw_response || analysisResult.result.raw_response
Payload(a) == IF a.raw_response # "" THEN a.raw_response ELSE a.result.raw_response


\* ------------------------------------------------------------------ scraper

\* Cache store: get(key) is a value or a miss, set(key, value, ttl) stores
\* the entry; an entry stored without ttl never expires.
NoExpiry == [expires |-> FALSE, seconds |-> 0]
Ttl(s)   == [expires |-> TRUE, seconds |-> s]

AnalysisTtl == 7200

NoEntry == [present |-> FALSE]

getCache(c, key) ==
    IF key \in DOMAIN c THEN [present |-> TRUE, value |-> c[key].value] ELSE NoEntry

setCache(c, key, value, ttl) ==
    [k \in DOMAIN c \cup {key} |->
        IF k = key THEN [value |-> value, ttl |-> ttl] ELSE c[k]]

\* In-flight tracker: a set of post ids.
addActivePost(active, postId) == active \cup {postId}
removeActivePost(active, postId) == active \ {postId}

\* ------------------------------------------------------------------ requests

IdleReq == [
    pc |-> "idle", endpoint |-> "none", platform |-> "none",
    url |-> NoUrl, contentId |-> "", postId |-> "", cacheKey |-> "",
    cached |-> NoEntry,
    page |-> "none", caught |-> FALSE, html |-> NoHtml,
    mediaAssets |-> <<>>, downloadedPaths |-> <<>>, downloadedMediaPaths |-> <<>>,
    cleanupLeft |-> <<>>, analyzer |-> "none", caption |-> "",
    \* the calls this request has made so far
    newPages |-> 0, closes |-> 0, adds |-> 0, removes |-> 0,
    updates |-> <<>>, failures |-> 0, responses |-> <<>>, nexts |-> <<>>,
    cacheWrites |-> <<>>, extracts |-> 0, downloads |-> 0, analyses |-> 0,
    created |-> {}, runNo |-> 0, cacheHit |-> FALSE, extractErr |-> 0,
    \* the remote call of the notifier: its state and the requests sent
    remote |-> "none", attempts |-> 0,
    \* what updateContent returned to the handler
    contentApiResult |-> [success |-> FALSE, message |-> ""],
    \* the 10 second timer of waitForProcessing: flips at every poll
    tick |-> FALSE
]

\* Variant: updateContent issues the axios request itself, before it returns.
updateContentInline(rec, content) ==
    [rec EXCEPT !.updates = Append(@, content),
                !.remote = "pending", !.attempts = @ + 1,
                !.contentApiResult =
                    [success |-> TRUE,
                     message |-> "Content sent to external API (fire and forget)"]]

\* updateContent(contentId, content): hands the remote call to
\* process.nextTick and returns the success record at once.
updateContent(rec, content) ==
    [rec EXCEPT !.updates = Append(@, content),
                !.remote = "scheduled",
                !.contentApiResult =
                    [success |-> TRUE,
                     message |-> "Content sent to external API (fire and forget)"]]

\* sendFailureStatus(contentId, message): hands the remote call to
\* process.nextTick and returns nothing.
sendFailureStatus(rec) ==
    [rec EXCEPT !.failures = @ + 1, !.remote = "scheduled"]

\* The callback given to process.nextTick starts: it issues the one axios
\* request of the task and awaits it.
AfterTick(rec) == [rec EXCEPT !.remote = "pending", !.attempts = @ + 1]

\* How the remote call of the notifier can end: a response with a 2xx
\* status, a response with any other status, a transport error, or no
\* response within the 5 second timeout.
NotifierOutcomes == {"ok", "httpError", "failed", "timeout"}

\* Variant: only a 2xx response counts as delivered (axios' default
\* validateStatus).
AfterNotifierChecksStatus(rec, outcome) ==
    [rec EXCEPT !.remote = IF outcome = "ok" THEN "sent" ELSE "warned"]

\* The rest of the nextTick callback.  validateStatus accepts every status,
\* so any response is logged as sent; a transport error or a timeout rejects
\* and the catch block logs a warning and swallows the error.
AfterNotifier(rec, outcome) ==
    [rec EXCEPT !.remote = IF outcome \in {"ok", "httpError"} THEN "sent" ELSE "warned"]

\* res.status(status).json(body)
Respond(rec, status, isCached) ==
    [rec EXCEPT !.responses = Append(@, [status |-> status, cached |-> isCached])]

\* next(error): the error goes to the application's error handler.
NextError(rec, err) == [rec EXCEPT !.nexts = Append(@, err)]

\* Variant: every error is answered with the generic 500.
StatusOfGeneric(err) == 500

StatusOf(err) == IF err.status # 0 THEN err.status ELSE 500

Done(rec) == [rec EXCEPT !.pc = "done"]

\* Variant: the catch block also stores the error response in the cache.
AnalyzeCatchCaches(rec, err) ==
    LET told == IF rec.contentId # "" THEN sendFailureStatus(rec) ELSE rec
    IN [Respond(told, StatusOf(err), FALSE)
           EXCEPT !.cacheWrites = Append(@, [key |-> rec.cacheKey,
                                             value |-> [error |-> err.message],
                                             ttl |-> [expires |-> FALSE, seconds |-> 0]])]

\* The catch block of the analysis handlers: failure status to the notifier
\* when there is a contentId, then the error response.
AnalyzeCatch(rec, err) ==
    LET told == IF rec.contentId # "" THEN sendFailureStatus(rec) ELSE rec
    IN Respond(told, StatusOf(err), FALSE)

\* The finally block of the analysis handlers: cleanup of the files the
\* handler knows it has downloaded.
AnalyzeFinally(rec) ==
    IF rec.downloadedMediaPaths # <<>>
    THEN [rec EXCEPT !.pc = "cleanup",
                     !.cleanupLeft = [i \in 1..Len(rec.downloadedMediaPaths) |->
                                         rec.downloadedMediaPaths[i].path]]
    ELSE Done(rec)

\* A rejection that escapes the handler: express-async-handler passes it to
\* next().
AsyncHandlerCatch(rec, err) == Done(NextError(rec, err))


NewReq(endpoint, url, contentId) ==
    [IdleReq EXCEPT !.endpoint = endpoint, !.url = url, !.contentId = contentId]

ApiKeyMissing == Err(500, "GOOGLE_GEMINI_API_KEY environment variable is required")

ToStr(n) == CASE n = 0 -> "0" [] n = 1 -> "1" [] n = 2 -> "2" [] n = 3 -> "3"
              [] n = 4 -> "4" [] n = 5 -> "5" [] n = 6 -> "6" [] OTHER -> "n"

\* ------------------------------------------------------------------ GET /video

\* The handler up to its first await: the post id, then the cache lookup.
VideoEntry(rec, c) ==
    LET pid == getPostId(rec.url)
    IN IF ~pid.ok
       THEN AsyncHandlerCatch(rec, pid.err)
       ELSE [rec EXCEPT !.platform = "instagram", !.postId = pid.value,
                        !.cacheKey = pid.value,
                        !.cached = getCache(c, pid.value), !.pc = "cacheCheck"]

\* ------------------------------------------------------------------ POST /analyze

YoutubeId(url) ==
    IF url.host = "youtu.be" \/ url.seg \in {"watch", "shorts", "embed"}
    THEN url.id ELSE Raw(url)

\* The handler up to its first await: validation, the YouTube branch or the
\* post id, the services, then the cache lookup.
AnalyzeEntry(rec, c, hasKey) ==
    IF rec.url = NoUrl \/ rec.contentId = ""
    THEN Done(Respond(rec, 400, FALSE))
    ELSE IF isYouTubeUrl(rec.url)
    THEN LET yt == [rec EXCEPT !.platform = "youtube"]
             key == "youtube_analysis_" \o YoutubeId(rec.url)
         IN IF ~hasKey
            THEN Done(AnalyzeCatch(yt, ApiKeyMissing))
            ELSE [yt EXCEPT !.cacheKey = key, !.cached = getCache(c, key),
                            !.pc = "cacheCheck"]
    ELSE LET pid == getPostId(rec.url)
             ig  == [rec EXCEPT !.platform = "instagram", !.postId = pid.value]
             key == "analysis_" \o pid.value
         IN IF ~pid.ok
            THEN AsyncHandlerCatch(rec, pid.err)
            ELSE IF ~hasKey
            THEN AnalyzeFinally(AnalyzeCatch(ig, ApiKeyMissing))
            ELSE [ig EXCEPT !.cacheKey = key, !.cached = getCache(c, key),
                            !.pc = "cacheCheck"]

\* ------------------------------------------------------------------ POST /tiktok-analyze

\* Variant: the handler tells the notifier of a request without url.
TikTokEntryNotifies(rec, c, hasKey) ==
    IF rec.url = NoUrl \/ rec.contentId = ""
    THEN Done(Respond(IF rec.contentId # "" THEN sendFailureStatus(rec) ELSE rec,
                      400, FALSE))
    ELSE LET tt  == [rec EXCEPT !.platform = "tiktok"]
             key == "tiktok_analysis_" \o Raw(rec.url)
         IN IF ~hasKey
            THEN AnalyzeFinally(AnalyzeCatch(tt, ApiKeyMissing))
            ELSE [tt EXCEPT !.cacheKey = key, !.cached = getCache(c, key),
                            !.pc = "cacheCheck"]

TikTokEntry(rec, c, hasKey) ==
    IF rec.url = NoUrl \/ rec.contentId = ""
    THEN Done(Respond(rec, 400, FALSE))
    ELSE LET tt  == [rec EXCEPT !.platform = "tiktok"]
             key == "tiktok_analysis_" \o Raw(rec.url)
         IN IF ~hasKey
            THEN AnalyzeFinally(AnalyzeCatch(tt, ApiKeyMissing))
            ELSE [tt EXCEPT !.cacheKey = key, !.cached = getCache(c, key),
                            !.pc = "cacheCheck"]

\* ------------------------------------------------------------------ POST /download, GET /tiktok-info

DownloadUrls == {NoUrl, TtUrl}

\* POST /download up to its first await: the url check, then
\* downloadTikTokContent.
DownloadEntry(rec) ==
    IF rec.url = NoUrl
    THEN Done(Respond(rec, 400, FALSE))
    ELSE [rec EXCEPT !.platform = "tiktok", !.pc = "ttInfo"]

\* GET /tiktok-info up to its first await: the url check, then getTikTokInfo.
InfoEntry(rec) ==
    IF rec.url = NoUrl
    THEN Done(Respond(rec, 400, FALSE))
    ELSE [rec EXCEPT !.platform = "tiktok", !.pc = "info"]

\* The CustomError getTikTokInfo throws, if any.
InfoError(info) ==
    CASE info.outcome = "throws" -> Err(500, "Failed to get TikTok info")
      [] info.outcome = "error" -> Err(400, "Failed to extract TikTok content")
      [] OTHER -> NoErr

\* The catch block of GET /tiktok-info: the error response.
InfoCatch(rec, err) == Respond(rec, StatusOf(err), FALSE)

\* getTikTokInfo settled.
AfterInfo(rec, info) ==
    IF InfoError(info) # NoErr
    THEN Done(InfoCatch(rec, InfoError(info)))
    ELSE Done(Respond(rec, 200, FALSE))

\* ------------------------------------------------------------------ cache check

\* The text handed to the notifier on a cache hit.
CachedPayload(rec) ==
    IF rec.platform = "tiktok"
    THEN rec.cached.value.analysis.raw_response
    ELSE Payload(rec.cached.value.analysis)

\* Whether a cached value has the analysis field the analysis handlers read.
HasAnalysis(value) == "analysis" \in DOMAIN value

UndefinedRead == Err(0, "Cannot read properties of undefined (reading 'raw_response')")

\* Variant: the cached value is ignored.
IsHitNever(entry) == FALSE

\* if (cachedResponse) / if (cachedAnalysis)
IsHit(entry) == entry.present

\* Variant: a hit is answered without telling the notifier.
AfterCacheCheckSilent(rec) ==
    IF IsHit(rec.cached)
    THEN LET hit == [rec EXCEPT !.cacheHit = TRUE]
         IN IF rec.endpoint = "video"
            THEN Done(Respond(hit, 200, FALSE))
            ELSE AnalyzeFinally(Respond(hit, 200, TRUE))
    ELSE CASE rec.platform = "instagram" -> [rec EXCEPT !.pc = "newPage"]
           [] rec.platform = "youtube" ->
                [rec EXCEPT !.pc = "analyze", !.analyzer = "processYouTubeVideo",
                            !.analyses = @ + 1]
           [] OTHER -> [rec EXCEPT !.pc = "ttInfo"]

\* The handler after the cache lookup: on a hit the response built from the
\* cached value (the analysis handlers notify first), on a miss the next call.
\* The analysis handlers read cachedAnalysis.analysis.raw_response to build
\* the notifier's argument: on a value without analysis the read throws inside
\* the try block.
AfterCacheCheck(rec) ==
    IF IsHit(rec.cached)
    THEN LET hit == [rec EXCEPT !.cacheHit = TRUE]
         IN IF rec.endpoint = "video"
            THEN Done(Respond(hit, 200, FALSE))
            ELSE IF ~HasAnalysis(rec.cached.value)
            THEN AnalyzeFinally(AnalyzeCatch(hit, UndefinedRead))
            ELSE AnalyzeFinally(Respond(updateContent(hit, CachedPayload(hit)), 200, TRUE))
    ELSE CASE rec.platform = "instagram" -> [rec EXCEPT !.pc = "newPage"]
           [] rec.platform = "youtube" ->
                [rec EXCEPT !.pc = "analyze", !.analyzer = "processYouTubeVideo",
                            !.analyses = @ + 1]
           [] OTHER -> [rec EXCEPT !.pc = "ttInfo"]


\* ------------------------------------------------------------------ fetch phase

NavError == Err(0, "Navigation failed")
CloseError == Err(0, "Protocol error: target closed")
TypeError == Err(0, "Cannot read properties of undefined (reading 'close')")

\* Variant: the page is closed only when the fetch went through.
FetchFinallyKeepsPage(rec) ==
    LET rem == [rec EXCEPT !.removes = @ + 1]
    IN IF rec.page = "open" /\ ~rec.caught
       THEN [rem EXCEPT !.page = "closing", !.closes = @ + 1, !.pc = "close"]
       ELSE IF rec.endpoint = "video"
            THEN IF rec.page = "open"
                 THEN Done(rem)
                 ELSE AsyncHandlerCatch(rem, TypeError)
            ELSE AnalyzeFinally(rem)

\* The finally block of the fetch phase: removeActivePost, then the close of
\* the page.  /analyze closes only a page it has; /video calls close on
\* whatever currentPage is, which throws when newPage() never returned.  With
\* no close to await, the pending return next(error) completes.
FetchFinally(rec) ==
    LET rem == [rec EXCEPT !.removes = @ + 1]
    IN IF rec.page = "open"
       THEN [rem EXCEPT !.page = "closing", !.closes = @ + 1, !.pc = "close"]
       ELSE IF rec.endpoint = "video"
            THEN AsyncHandlerCatch(rem, TypeError)
            ELSE AnalyzeFinally(rem)

\* Variant: a failed fetch leaves the fetch phase without removeActivePost.
FetchCatchKeepsMarker(rec, err) ==
    LET out == FetchFinally(NextError([rec EXCEPT !.caught = TRUE], err))
    IN [out EXCEPT !.removes = rec.removes]

\* The catch block of the fetch phase, return next(error), and its finally.
FetchCatch(rec, err) ==
    FetchFinally(NextError([rec EXCEPT !.caught = TRUE], err))

\* Variant: the page that newPage() returned is not kept in currentPage.
AfterNewPageDropsHandle(rec, ok) ==
    IF ok
    THEN [rec EXCEPT !.newPages = @ + 1, !.pc = "intercept"]
    ELSE FetchCatch(rec, NavError)

\* newPage() settled.
AfterNewPage(rec, ok) ==
    IF ok
    THEN [rec EXCEPT !.newPages = @ + 1, !.page = "open", !.pc = "intercept"]
    ELSE FetchCatch(rec, NavError)

\* Variant: a failure of setRequestInterception ends the handler at once,
\* past the finally block.
AfterInterceptLeaks(rec, ok) ==
    IF ok
    THEN [rec EXCEPT !.adds = @ + 1, !.pc = "goto"]
    ELSE Done(NextError([rec EXCEPT !.caught = TRUE], NavError))

\* setRequestInterception(true) settled: on success the request listener,
\* addActivePost and the call of goto.
AfterIntercept(rec, ok) ==
    IF ok
    THEN [rec EXCEPT !.adds = @ + 1, !.pc = "goto"]
    ELSE FetchCatch(rec, NavError)

\* goto(postUrl) settled.
AfterGoto(rec, ok) ==
    IF ok THEN [rec EXCEPT !.pc = "content"] ELSE FetchCatch(rec, NavError)

\* content() settled.
AfterContent(rec, ok, html) ==
    IF ok THEN FetchFinally([rec EXCEPT !.html = html]) ELSE FetchCatch(rec, NavError)

\* ------------------------------------------------------------------ after the fetch

\* primaryUrl is null or a string.
Null == [isNull |-> TRUE, url |-> ""]
Str(u) == [isNull |-> FALSE, url |-> u]

\* mediaAssets.find(asset => asset.type === 'video'), from index i on: the
\* index of the asset found, 0 for undefined.
RECURSIVE FindVideo(_, _)
FindVideo(assets, i) ==
    IF i > Len(assets) THEN 0
    ELSE IF assets[i].type = "video" THEN i
    ELSE FindVideo(assets, i + 1)

\* Variant: primaryUrl is the url of the first asset, whatever its type.
PrimaryUrlFirstAsset(assets) ==
    IF assets = <<>> THEN Null ELSE Str(assets[1].url)

\* primaryUrl of GET /video: null for no assets, else the url of the first
\* video, else that of the first asset.
PrimaryUrl(assets) ==
    IF assets = <<>> THEN Null
    ELSE LET videoAsset == FindVideo(assets, 1)
         IN Str(IF videoAsset # 0 THEN assets[videoAsset].url ELSE assets[1].url)

\* Variant: the result is not stored.
CacheWriteSkipped(rec, value, ttl) == rec

CacheWrite(rec, value, ttl) ==
    [rec EXCEPT !.cacheWrites = Append(@, [key |-> rec.cacheKey, value |-> value, ttl |-> ttl])]

\* GET /video after the page is closed: extraction, primaryUrl, the cache
\* write without ttl, the response.
VideoAfterFetch(rec) ==
    LET m == getAllMediaAssets(rec.html, rec.postId)
        ex == [rec EXCEPT !.extracts = @ + 1, !.extractErr = m.err.status,
                          !.html = NoHtml]
    IN IF ~m.ok
       THEN AsyncHandlerCatch(ex, m.err)
       ELSE LET response == [mediaAssets |-> m.value, primaryUrl |-> PrimaryUrl(m.value)]
            IN Done(Respond(CacheWrite([ex EXCEPT !.mediaAssets = m.value],
                                       response, NoExpiry), 200, FALSE))

\* POST /analyze after the page is closed: extraction, then the first
\* download of downloadMediaAssets.
AnalyzeAfterFetch(rec) ==
    LET m == getAllMediaAssets(rec.html, rec.postId)
        ex == [rec EXCEPT !.extracts = @ + 1, !.extractErr = m.err.status,
                          !.html = NoHtml]
    IN IF ~m.ok
       THEN AnalyzeFinally(AnalyzeCatch(ex, m.err))
       ELSE IF m.value = <<>>
       THEN AnalyzeFinally(AnalyzeCatch(ex, Err(0, "error is not defined")))
       ELSE [ex EXCEPT !.mediaAssets = m.value, !.downloads = 1, !.pc = "download"]

\* close() settled.  An error thrown by the finally block replaces the
\* pending return; otherwise a caught fetch error returns, and a clean fetch
\* goes on.
AfterClose(rec, ok) ==
    LET cl == [rec EXCEPT !.page = "closed"]
    IN IF ~ok
       THEN IF rec.endpoint = "video"
            THEN AsyncHandlerCatch(cl, CloseError)
            ELSE AnalyzeFinally(AnalyzeCatch(cl, CloseError))
       ELSE IF rec.caught
       THEN IF rec.endpoint = "video" THEN Done(cl) ELSE AnalyzeFinally(cl)
       ELSE IF rec.endpoint = "video" THEN VideoAfterFetch(cl) ELSE AnalyzeAfterFetch(cl)


\* ------------------------------------------------------------------ downloads

DownloadError == Err(500, "Failed to download media assets")

\* downloadMediaAssets names the file of asset i after the post and the index.
MediaPath(postId, i, type) ==
    "/tmp/" \o postId \o "_" \o ToStr(i) \o (IF type = "video" THEN ".mp4" ELSE ".jpg")

\* Variant: sets of one type go to the call for that type.
RouteByType(paths) ==
    IF \A i \in 1..Len(paths) : paths[i].type = "video"
    THEN IF Len(paths) = 1 THEN "processVideo" ELSE "processMixedMedia"
    ELSE IF \A i \in 1..Len(paths) : paths[i].type = "image"
    THEN "processImages"
    ELSE "processMixedMedia"

\* The analysis call of POST /analyze for the downloaded set.
Route(paths) ==
    IF Len(paths) = 1
    THEN IF paths[1].type = "video" THEN "processVideo" ELSE "processImages"
    ELSE "processMixedMedia"

DownloadOutcomes == {"ok", "requestFailed", "writeFailed"}

\* Variant: an asset that fails to download is left out and the loop goes on.
AfterDownloadSkipsFailed(rec, outcome) ==
    LET i     == rec.downloads
        asset == rec.mediaAssets[i]
        path  == MediaPath(rec.postId, i - 1, asset.type)
        wrote == IF outcome = "requestFailed" THEN rec
                 ELSE [rec EXCEPT !.created = @ \cup {path}]
        got   == IF outcome = "ok"
                 THEN Append(rec.downloadedPaths, [type |-> asset.type, path |-> path])
                 ELSE rec.downloadedPaths
    IN IF i < Len(rec.mediaAssets)
       THEN [wrote EXCEPT !.downloadedPaths = got, !.downloads = i + 1]
       ELSE IF got = <<>>
       THEN AnalyzeFinally(AnalyzeCatch(wrote, DownloadError))
       ELSE [wrote EXCEPT !.downloadedPaths = got, !.downloadedMediaPaths = got,
                          !.analyzer = Route(got), !.analyses = @ + 1,
                          !.pc = "analyze"]

\* downloadMedia of the current asset settled, inside the loop of
\* downloadMediaAssets.  The write stream creates the file once the request
\* has answered; a failure of either kind rejects downloadMediaAssets, and
\* downloadedMediaPaths of the handler is assigned only when it returns.
AfterDownload(rec, outcome) ==
    LET i     == rec.downloads
        asset == rec.mediaAssets[i]
        path  == MediaPath(rec.postId, i - 1, asset.type)
        wrote == [rec EXCEPT !.created = @ \cup {path}]
        got   == Append(rec.downloadedPaths, [type |-> asset.type, path |-> path])
    IN CASE outcome = "requestFailed" -> AnalyzeFinally(AnalyzeCatch(rec, DownloadError))
         [] outcome = "writeFailed" -> AnalyzeFinally(AnalyzeCatch(wrote, DownloadError))
         [] OTHER ->
              IF i < Len(rec.mediaAssets)
              THEN [wrote EXCEPT !.downloadedPaths = got, !.downloads = i + 1]
              ELSE [wrote EXCEPT !.downloadedPaths = got, !.downloadedMediaPaths = got,
                                 !.analyzer = Route(got), !.analyses = @ + 1,
                                 !.pc = "analyze"]

\* ------------------------------------------------------------------ TikTok download

TtInfo(outcome, type, hasVideoUrl, images, desc) ==
    [outcome |-> outcome, type |-> type, hasVideoUrl |-> hasVideoUrl,
     images |-> images, desc |-> desc]

\* What Tiktok.Downloader can answer: it throws, it reports an error status,
\* or it describes a video, a slide show of images, or something else.
TtInfos == {
    TtInfo("throws", "", FALSE, 0, ""),
    TtInfo("error", "", FALSE, 0, ""),
    TtInfo("success", "video", TRUE, 0, "my caption"),
    TtInfo("success", "video", FALSE, 0, ""),
    TtInfo("success", "image", FALSE, 2, ""),
    TtInfo("success", "music", FALSE, 0, "")
}

\* generateFilename puts Date.now() in the name: the files of two requests
\* differ.
TtPath(runNo, i) == "/tmp/tt_" \o ToStr(runNo) \o "_" \o ToStr(i)

RECURSIVE TtAssets(_, _)
TtAssets(type, n) ==
    IF n = 0 THEN <<>> ELSE Append(TtAssets(type, n - 1), Asset(type, "tiktok-cdn"))

\* The catch block of POST /download reads contentId, which that handler
\* never declares: the read throws before any response is built, the finally
\* block logs, and the rejection goes to express-async-handler.
ReferenceError == Err(0, "contentId is not defined")

DownloadCatch(rec, err) == AsyncHandlerCatch(rec, ReferenceError)

\* downloadTikTokContent threw err: the catch block of the handler that
\* called it.
TtFail(rec, err) ==
    IF rec.endpoint = "download"
    THEN DownloadCatch(rec, err)
    ELSE AnalyzeFinally(AnalyzeCatch(rec, err))

\* The CustomError downloadTikTokContent throws once Tiktok.Downloader has
\* settled, if it throws one before the first downloadFile.
TtInfoError(info) ==
    CASE info.outcome = "throws" -> Err(500, "Failed to download TikTok content")
      [] info.outcome = "error" -> Err(400, "Failed to extract TikTok content")
      [] info.type = "video" /\ ~info.hasVideoUrl -> Err(400, "No valid video URL found")
      [] info.type = "video" -> NoErr
      [] info.type = "image" /\ info.images > 0 -> NoErr
      [] OTHER -> Err(404, "No downloadable content found")

\* downloadTikTokContent after Tiktok.Downloader settled, up to the first
\* downloadFile.
AfterTtInfo(rec, info) ==
    IF TtInfoError(info) # NoErr
    THEN TtFail(rec, TtInfoError(info))
    ELSE [rec EXCEPT !.mediaAssets = TtAssets(info.type,
                                              IF info.type = "video" THEN 1 ELSE info.images),
                     !.caption = info.desc, !.downloads = 1, !.pc = "ttDownload"]

TtOutcomes == {"ok", "failedFileLeft", "failedFileRemoved"}

\* The handler once downloadTikTokContent returned: POST /download answers
\* 200 and keeps the files; POST /tiktok-analyze sets downloadedFiles and
\* makes the analysis call for the content type.
TtAfterDownloads(rec, got) ==
    IF rec.endpoint = "download"
    THEN Done(Respond([rec EXCEPT !.downloadedPaths = got], 200, FALSE))
    ELSE [rec EXCEPT !.downloadedPaths = got, !.downloadedMediaPaths = got,
                     !.analyzer = IF got[1].type = "video" THEN "processVideo"
                                  ELSE "processImages",
                     !.analyses = @ + 1, !.pc = "analyze"]

\* Variant: an image that fails to download aborts the request, as a video
\* does.
AfterTtDownloadStrict(rec, outcome) ==
    LET i     == rec.downloads
        asset == rec.mediaAssets[i]
        path  == TtPath(rec.runNo, i)
        wrote == IF outcome = "failedFileRemoved" THEN rec
                 ELSE [rec EXCEPT !.created = @ \cup {path}]
        got   == Append(rec.downloadedPaths, [type |-> asset.type, path |-> path])
    IN IF outcome # "ok"
       THEN TtFail(wrote, Err(500, "Download failed"))
       ELSE IF i < Len(rec.mediaAssets)
       THEN [wrote EXCEPT !.downloadedPaths = got, !.downloads = i + 1]
       ELSE TtAfterDownloads(wrote, got)

\* downloadFile of the current TikTok item settled.  The write stream is
\* opened before the request; only a stream error unlinks the file.  A video
\* that fails aborts, an image that fails is skipped.
AfterTtDownload(rec, outcome) ==
    LET i     == rec.downloads
        asset == rec.mediaAssets[i]
        path  == TtPath(rec.runNo, i)
        wrote == IF outcome = "failedFileRemoved" THEN rec
                 ELSE [rec EXCEPT !.created = @ \cup {path}]
        got   == IF outcome = "ok"
                 THEN Append(rec.downloadedPaths, [type |-> asset.type, path |-> path])
                 ELSE rec.downloadedPaths
    IN IF asset.type = "video" /\ outcome # "ok"
       THEN TtFail(wrote, Err(500, "Video download failed"))
       ELSE IF i < Len(rec.mediaAssets)
       THEN [wrote EXCEPT !.downloadedPaths = got, !.downloads = i + 1]
       ELSE IF got = <<>>
       THEN TtFail(wrote, Err(404, "No downloadable content found"))
       ELSE TtAfterDownloads(wrote, got)


\* ------------------------------------------------------------------ analysis, notification, cache

AnalysisError == Err(500, "Video processing failed")

\* The text handed to the notifier after a fresh analysis; the TikTok handler
\* appends the caption of the post.
FinalContent(rec, a) ==
    IF rec.platform = "tiktok" /\ rec.caption # ""
    THEN Payload(a) \o " Original Caption: " \o rec.caption
    ELSE Payload(a)

\* Variant: the result is stored before, and without, the call of the notifier.
AfterAnalysisCachesFirst(rec, ok, text, onDisk) ==
    LET missing == \E i \in 1..Len(rec.downloadedMediaPaths) :
                       rec.downloadedMediaPaths[i].path \notin onDisk
        fails == ~ok \/ (rec.analyzer \in {"processVideo", "processImages"} /\ missing)
        a == AnalysisResult(text)
        responseData == [platform |-> rec.platform, mediaAssets |-> rec.mediaAssets,
                         analysis |-> a]
    IN IF fails
       THEN AnalyzeFinally(AnalyzeCatch(rec, AnalysisError))
       ELSE [CacheWrite(rec, responseData, Ttl(AnalysisTtl)) EXCEPT !.pc = "cached"]

\* The analysis call settled.  processVideo and processImages throw when a
\* file is not on disk, processMixedMedia skips it.  On success: the
\* notifier, the response data, and the cache write with the 2 hour ttl.
AfterAnalysis(rec, ok, text, onDisk) ==
    LET missing == \E i \in 1..Len(rec.downloadedMediaPaths) :
                       rec.downloadedMediaPaths[i].path \notin onDisk
        fails == ~ok \/ (rec.analyzer \in {"processVideo", "processImages"} /\ missing)
        a == AnalysisResult(text)
        responseData == [platform |-> rec.platform, mediaAssets |-> rec.mediaAssets,
                         analysis |-> a]
    IN IF fails
       THEN AnalyzeFinally(AnalyzeCatch(rec, AnalysisError))
       ELSE [CacheWrite(updateContent(rec, FinalContent(rec, a)),
                        responseData, Ttl(AnalysisTtl))
                EXCEPT !.pc = "cached"]

\* waitForProcessing: the uploaded file is in state PROCESSING, so the loop
\* sleeps 10 seconds and asks files.get again.  The loop has no attempt limit
\* and no deadline.
WaitsForProcessing(rec) ==
    \/ rec.analyzer = "processVideo"
    \/ /\ rec.analyzer = "processMixedMedia"
       /\ \E i \in 1..Len(rec.downloadedMediaPaths) :
             rec.downloadedMediaPaths[i].type = "video"

AfterPoll(rec) == [rec EXCEPT !.tick = ~@]

\* Variant: the response reports a notifier call that failed.
AfterCacheWriteChecksNotifier(rec) ==
    AnalyzeFinally(Respond(rec, IF rec.remote = "warned" THEN 502 ELSE 200, FALSE))

\* await setCache(...) returned: the 200 response, then the finally block.
AfterCacheWrite(rec) == AnalyzeFinally(Respond(rec, 200, FALSE))

\* cleanup(filePaths): one file of the loop.
AfterCleanupStep(rec) ==
    LET rest == Tail(rec.cleanupLeft)
    IN IF rest = <<>> THEN Done([rec EXCEPT !.cleanupLeft = rest])
       ELSE [rec EXCEPT !.cleanupLeft = rest]

\* ------------------------------------------------------------------ actions

\* The handler has returned: its locals are gone, the record of the calls it
\* made stays until the slot is retired.
Returned(rec) ==
    [rec EXCEPT !.cached = NoEntry, !.html = NoHtml, !.mediaAssets = <<>>,
                !.downloadedPaths = <<>>, !.downloadedMediaPaths = <<>>,
                !.cleanupLeft = <<>>, !.caption = "", !.caught = FALSE,
                !.tick = FALSE,
                !.cacheWrites = [i \in 1..Len(@) |-> [@[i] EXCEPT !.value = ""]]]

\* Slot r goes from old to new: the calls new has made beyond old reach the
\* cache store, the tracker and the disk.
Step(r, new) ==
    LET old == req[r]
    IN /\ \A s \in Slots : req[s].pc # "done" /\ req[s].remote # "scheduled"
       /\ req' = [req EXCEPT ![r] = IF new.pc = "done" THEN Returned(new) ELSE new]
       /\ cache' = IF Len(new.cacheWrites) > Len(old.cacheWrites)
                   THEN LET w == new.cacheWrites[Len(new.cacheWrites)]
                        IN setCache(cache, w.key, w.value, w.ttl)
                   ELSE cache
       /\ activePosts' = IF new.adds > old.adds
                         THEN addActivePost(activePosts, new.postId)
                         ELSE IF new.removes > old.removes
                         THEN removeActivePost(activePosts, new.postId)
                         ELSE activePosts
       /\ files' = IF Len(new.cleanupLeft) < Len(old.cleanupLeft)
                   THEN files \ {Head(old.cleanupLeft)}
                   ELSE files \cup (new.created \ old.created)
       /\ notifiedKeys' = IF /\ Len(new.updates) > Len(old.updates)
                     /\ new.updates[Len(new.updates)] # ""
                  THEN notifiedKeys \cup {new.cacheKey}
                  ELSE notifiedKeys
       /\ UNCHANGED apiKey

\* A new request takes the lowest free slot.  Only a request that gets past
\* validation to its first await counts as a run.
CanStart(r) ==
    /\ req[r].pc = "idle"
    /\ \A s \in Slots : s < r => req[s].pc # "idle"
    /\ runs < MaxRuns

\* Requests that touch the same cache keys, files and tracker entries are
\* the Instagram ones (GET /video, POST /analyze of a post): they overlap in
\* every way.  A YouTube or TikTok request uses keys and file names of its
\* own and runs while no other request is in progress.
Shared(rec) == rec.platform = "instagram"

\* The environment's answer in this step was a failure or nothing usable.
Disturb(bad) == disturbed' = (disturbed \/ bad)

Started(r) ==
    /\ UNCHANGED disturbed
    /\ runs' = IF req'[r].pc = "done" THEN runs ELSE runs + 1
    /\ \A s \in Slots \ {r} :
          req[s].pc # "idle" => Shared(req[s]) /\ (Shared(req'[r]) \/ req'[r].pc = "done")

VideoStart(r) ==
    /\ CanStart(r)
    /\ \E url \in VideoUrls :
         Step(r, VideoEntry(NewReq("video", url, ""), cache))
    /\ Started(r)

AnalyzeStart(r) ==
    /\ CanStart(r)
    /\ \E url \in AnalyzeUrls, cid \in ContentIds :
         Step(r, AnalyzeEntry(NewReq("analyze", url, cid), cache, apiKey))
    /\ Started(r)

TikTokStart(r) ==
    /\ CanStart(r)
    /\ \E url \in TikTokUrls, cid \in ContentIds :
         Step(r, TikTokEntry([NewReq("tiktok", url, cid) EXCEPT !.runNo = runs + 1],
                             cache, apiKey))
    /\ Started(r)

CacheChecked(r) ==
    /\ req[r].pc = "cacheCheck"
    /\ Step(r, AfterCacheCheck(req[r]))
    /\ UNCHANGED disturbed
    /\ UNCHANGED runs

NewPageSettled(r) ==
    /\ req[r].pc = "newPage"
    /\ \E ok \in BOOLEAN : Step(r, AfterNewPage(req[r], ok)) /\ Disturb(~ok)
    /\ UNCHANGED runs

InterceptSettled(r) ==
    /\ req[r].pc = "intercept"
    /\ \E ok \in BOOLEAN : Step(r, AfterIntercept(req[r], ok)) /\ Disturb(~ok)
    /\ UNCHANGED runs

GotoSettled(r) ==
    /\ req[r].pc = "goto"
    /\ \E ok \in BOOLEAN : Step(r, AfterGoto(req[r], ok)) /\ Disturb(~ok)
    /\ UNCHANGED runs

ContentSettled(r) ==
    /\ req[r].pc = "content"
    /\ \E ok \in BOOLEAN, html \in Htmls :
         /\ Step(r, AfterContent(req[r], ok, html))
         /\ Disturb(~ok \/ ~getAllMediaAssets(html, req[r].postId).ok)
    /\ UNCHANGED runs

CloseSettled(r) ==
    /\ req[r].pc = "close"
    /\ \E ok \in BOOLEAN : Step(r, AfterClose(req[r], ok)) /\ Disturb(~ok)
    /\ UNCHANGED runs

DownloadSettled(r) ==
    /\ req[r].pc = "download"
    /\ \E outcome \in DownloadOutcomes :
         Step(r, AfterDownload(req[r], outcome)) /\ Disturb(outcome # "ok")
    /\ UNCHANGED runs

TtInfoSettled(r) ==
    /\ req[r].pc = "ttInfo"
    /\ \E info \in TtInfos :
         /\ Step(r, AfterTtInfo(req[r], info))
         /\ Disturb(req'[r].pc # "ttDownload")
    /\ UNCHANGED runs

TtDownloadSettled(r) ==
    /\ req[r].pc = "ttDownload"
    /\ \E outcome \in TtOutcomes :
         Step(r, AfterTtDownload(req[r], outcome)) /\ Disturb(outcome # "ok")
    /\ UNCHANGED runs

AnalysisSettled(r) ==
    /\ req[r].pc = "analyze"
    /\ \E ok \in BOOLEAN, text \in Texts :
         /\ Step(r, AfterAnalysis(req[r], ok, text, files))
         /\ Disturb(~ok \/ text = "")
    /\ UNCHANGED runs

CacheWritten(r) ==
    /\ req[r].pc = "cached"
    /\ Step(r, AfterCacheWrite(req[r]))
    /\ UNCHANGED disturbed
    /\ UNCHANGED runs

CleanupStep(r) ==
    /\ req[r].pc = "cleanup"
    /\ Step(r, AfterCleanupStep(req[r]))
    /\ UNCHANGED disturbed
    /\ UNCHANGED runs

\* The current stretch of the handler is over: the process.nextTick queue
\* runs before anything else does.
NotifierTick(r) ==
    /\ req[r].remote = "scheduled"
    /\ req' = [req EXCEPT ![r] = AfterTick(req[r])]
    /\ UNCHANGED <<cache, activePosts, files, runs, apiKey, notifiedKeys, disturbed>>

\* The remote call of the notifier settles, at any time after it was sent:
\* while the handler is still at work or after it has answered.
NotifierSettled(r) ==
    /\ req[r].remote = "pending"
    /\ \A s \in Slots : req[s].remote # "scheduled"
    /\ \E outcome \in NotifierOutcomes :
         req' = [req EXCEPT ![r] = AfterNotifier(req[r], outcome)]
    /\ UNCHANGED <<cache, activePosts, files, runs, apiKey, notifiedKeys, disturbed>>

\* The request of slot r is over: the slot is free for the next request.  A
\* finished request is retired before anything else moves; retiring touches
\* only the slot's own record, which no other step reads.
Retire(r) ==
    /\ req[r].pc = "done"
    /\ \A s \in Slots : req[s].remote # "scheduled"
    /\ req' = [req EXCEPT ![r] = IdleReq]
    /\ UNCHANGED <<cache, activePosts, files, runs, apiKey, notifiedKeys, disturbed>>

\* An entry stored with a ttl expires.
Expire ==
    /\ \E k \in DOMAIN cache :
         /\ \A s \in Slots : req[s].pc # "done" /\ req[s].remote # "scheduled"
         /\ cache[k].ttl.expires
         /\ cache' = [j \in DOMAIN cache \ {k} |-> cache[j]]
    /\ disturbed' = TRUE
    /\ UNCHANGED <<req, activePosts, files, runs, apiKey, notifiedKeys>>

Init ==
    /\ req = [r \in Slots |-> IdleReq]
    /\ cache = [k \in {} |-> NoEntry]
    /\ activePosts = {}
    /\ files = {}
    /\ runs = 0
    /\ apiKey \in BOOLEAN
    /\ notifiedKeys = {}
    /\ disturbed = FALSE

Next ==
    \/ \E r \in Slots :
         \/ VideoStart(r) \/ AnalyzeStart(r) \/ TikTokStart(r)
         \/ CacheChecked(r)
         \/ NewPageSettled(r) \/ InterceptSettled(r) \/ GotoSettled(r)
         \/ ContentSettled(r) \/ CloseSettled(r)
         \/ DownloadSettled(r)
         \/ TtInfoSettled(r) \/ TtDownloadSettled(r)
         \/ AnalysisSettled(r) \/ CacheWritten(r) \/ CleanupStep(r)
         \/ NotifierTick(r)
         \/ Retire(r)
    \/ Expire

Spec == Init /\ [][Next]_vars


\* Every request in progress is eventually answered by its collaborators:
\* each awaited call settles and the event loop runs its continuation, however
\* many other requests arrive in between; a finished request is retired.
Progress(r) ==
    \/ CacheChecked(r)
    \/ NewPageSettled(r) \/ InterceptSettled(r) \/ GotoSettled(r)
    \/ ContentSettled(r) \/ CloseSettled(r)
    \/ DownloadSettled(r)
    \/ TtInfoSettled(r) \/ TtDownloadSettled(r)
    \/ AnalysisSettled(r) \/ CacheWritten(r) \/ CleanupStep(r)
    \/ NotifierTick(r)
    \/ Retire(r)

FairSpec == Init /\ [][Next]_vars /\ \A r \in Slots : SF_vars(Progress(r))

\* The requests one at a time, in the first slot, with the remote calls of
\* the notifier settling at any moment.  Spec leaves those calls in flight:
\* their outcome reaches nothing but the notifier's own log.
FirstSlot == {s \in Slots : \A t \in Slots : s <= t}

NotifierNext ==
    \/ \E r \in FirstSlot :
         \/ VideoStart(r) \/ AnalyzeStart(r) \/ TikTokStart(r)
         \/ CacheChecked(r)
         \/ NewPageSettled(r) \/ InterceptSettled(r) \/ GotoSettled(r)
         \/ ContentSettled(r) \/ CloseSettled(r)
         \/ DownloadSettled(r)
         \/ TtInfoSettled(r) \/ TtDownloadSettled(r)
         \/ AnalysisSettled(r) \/ CacheWritten(r) \/ CleanupStep(r)
         \/ NotifierTick(r)
         \/ NotifierSettled(r)
         \/ Retire(r)
    \/ Expire

NotifierSpec == Init /\ [][NotifierNext]_vars

\* The five endpoints of the router, one request at a time.
DownloadStart(r) ==
    /\ CanStart(r)
    /\ \E url \in DownloadUrls :
         Step(r, DownloadEntry([NewReq("download", url, "") EXCEPT !.runNo = runs + 1]))
    /\ Started(r)

InfoStart(r) ==
    /\ CanStart(r)
    /\ \E url \in DownloadUrls : Step(r, InfoEntry(NewReq("info", url, "")))
    /\ Started(r)

InfoSettled(r) ==
    /\ req[r].pc = "info"
    /\ \E info \in TtInfos :
         Step(r, AfterInfo(req[r], info)) /\ Disturb(InfoError(info) # NoErr)
    /\ UNCHANGED runs

EndpointNext ==
    \/ \E r \in FirstSlot :
         \/ VideoStart(r) \/ AnalyzeStart(r) \/ TikTokStart(r)
         \/ DownloadStart(r) \/ InfoStart(r)
         \/ CacheChecked(r)
         \/ NewPageSettled(r) \/ InterceptSettled(r) \/ GotoSettled(r)
         \/ ContentSettled(r) \/ CloseSettled(r)
         \/ DownloadSettled(r)
         \/ TtInfoSettled(r) \/ TtDownloadSettled(r) \/ InfoSettled(r)
         \/ AnalysisSettled(r) \/ CacheWritten(r) \/ CleanupStep(r)
         \/ NotifierTick(r)
         \/ Retire(r)
    \/ Expire

EndpointSpec == Init /\ [][EndpointNext]_vars

\* The analysis with the polls of waitForProcessing as steps of their own:
\* files.get answers, and the answer is PROCESSING.  AnalysisSettled is the
\* step in which the workflow ends, with a result or an error.
PollSettled(r) ==
    /\ req[r].pc = "analyze"
    /\ WaitsForProcessing(req[r])
    /\ Step(r, AfterPoll(req[r]))
    /\ UNCHANGED disturbed
    /\ UNCHANGED runs

PollNext ==
    \/ \E r \in FirstSlot :
         \/ VideoStart(r) \/ AnalyzeStart(r) \/ TikTokStart(r)
         \/ CacheChecked(r)
         \/ NewPageSettled(r) \/ InterceptSettled(r) \/ GotoSettled(r)
         \/ ContentSettled(r) \/ CloseSettled(r)
         \/ DownloadSettled(r)
         \/ TtInfoSettled(r) \/ TtDownloadSettled(r)
         \/ PollSettled(r)
         \/ AnalysisSettled(r) \/ CacheWritten(r) \/ CleanupStep(r)
         \/ NotifierTick(r)
         \/ Retire(r)
    \/ Expire

\* Fair scheduling with collaborators that answer every call: the call a
\* request awaits settles and its continuation runs.  Which answer the
\* collaborator gives is its own choice.
PollSpec ==
    Init /\ [][PollNext]_vars /\ \A r \in FirstSlot : SF_vars(Progress(r) \/ PollSettled(r))

\* The requests one at a time with the notifier's tasks running to their
\* end: the axios call has a 5 second timeout, so it settles, and the record
\* of a request is kept until its task has ended.
RetireSettled(r) == Retire(r) /\ req[r].remote # "pending"

DeliveryNext ==
    \/ \E r \in FirstSlot :
         \/ VideoStart(r) \/ AnalyzeStart(r) \/ TikTokStart(r)
         \/ CacheChecked(r)
         \/ NewPageSettled(r) \/ InterceptSettled(r) \/ GotoSettled(r)
         \/ ContentSettled(r) \/ CloseSettled(r)
         \/ DownloadSettled(r)
         \/ TtInfoSettled(r) \/ TtDownloadSettled(r)
         \/ AnalysisSettled(r) \/ CacheWritten(r) \/ CleanupStep(r)
         \/ NotifierTick(r) \/ NotifierSettled(r)
         \/ RetireSettled(r)
    \/ Expire

DeliverySpec ==
    /\ Init /\ [][DeliveryNext]_vars
    /\ \A r \in FirstSlot : WF_vars(NotifierTick(r)) /\ WF_vars(NotifierSettled(r))

\* GET /video on any url and any page, and POST /analyze on the urls
\* getPostId rejects: the parsing of the url and the extraction of the media
\* on their whole input range.
ExtractStart(r) ==
    /\ CanStart(r)
    /\ \E url \in ExtractUrls : Step(r, VideoEntry(NewReq("video", url, ""), cache))
    /\ Started(r)

RejectedAnalyzeStart(r) ==
    /\ CanStart(r)
    /\ \E url \in {u \in ExtractUrls : ~getPostId(u).ok}, cid \in ContentIds :
         Step(r, AnalyzeEntry(NewReq("analyze", url, cid), cache, apiKey))
    /\ Started(r)

ExtractContentSettled(r) ==
    /\ req[r].pc = "content"
    /\ \E ok \in BOOLEAN, html \in HtmlInputs :
         /\ Step(r, AfterContent(req[r], ok, html))
         /\ Disturb(~ok \/ ~getAllMediaAssets(html, req[r].postId).ok)
    /\ UNCHANGED runs

ExtractNext ==
    \E r \in FirstSlot :
         \/ ExtractStart(r) \/ RejectedAnalyzeStart(r)
         \/ CacheChecked(r)
         \/ NewPageSettled(r) \/ InterceptSettled(r) \/ GotoSettled(r)
         \/ ExtractContentSettled(r) \/ CloseSettled(r)
         \/ Retire(r)

ExtractSpec == Init /\ [][ExtractNext]_vars

\* Posts whose shortcode starts like the key of an analysis endpoint: the
\* shortcode alphabet has letters and the underscore.
AnalysisPostUrl == [IgUrl EXCEPT !.id = "analysis_p1"]
YoutubePostUrl  == [IgUrl EXCEPT !.id = "youtube_analysis_y1"]

KeyVideoUrls == {IgUrl, AnalysisPostUrl, YoutubePostUrl}

\* GET /video and the analysis endpoints one request at a time, over post
\* urls of every shortcode shape.
KeyVideoStart(r) ==
    /\ CanStart(r)
    /\ \E url \in KeyVideoUrls : Step(r, VideoEntry(NewReq("video", url, ""), cache))
    /\ Started(r)

KeyNext ==
    \/ \E r \in FirstSlot :
         \/ KeyVideoStart(r) \/ AnalyzeStart(r) \/ TikTokStart(r)
         \/ CacheChecked(r)
         \/ NewPageSettled(r) \/ InterceptSettled(r) \/ GotoSettled(r)
         \/ ContentSettled(r) \/ CloseSettled(r)
         \/ DownloadSettled(r)
         \/ TtInfoSettled(r) \/ TtDownloadSettled(r)
         \/ AnalysisSettled(r) \/ CacheWritten(r) \/ CleanupStep(r)
         \/ NotifierTick(r)
         \/ Retire(r)
    \/ Expire

KeySpec == Init /\ [][KeyNext]_vars

\* await scraper.setCache(...) inside the try block of the analysis handlers:
\* the call can return, as in CacheWritten, or throw, and then the catch and
\* the finally block of the handler run.  Whether a set that threw has stored
\* the entry is the store's choice.
CacheWriteError == Err(0, "cache write failed")

AfterCacheWriteRejected(rec) == AnalyzeFinally(AnalyzeCatch(rec, CacheWriteError))

CacheWriteRejected(r) ==
    /\ req[r].pc = "cached"
    /\ \A s \in Slots : req[s].pc # "done" /\ req[s].remote # "scheduled"
    /\ LET new == AfterCacheWriteRejected(req[r])
       IN req' = [req EXCEPT ![r] = IF new.pc = "done" THEN Returned(new) ELSE new]
    /\ \E stored \in BOOLEAN :
         cache' = IF stored THEN cache
                  ELSE [k \in DOMAIN cache \ {req[r].cacheKey} |-> cache[k]]
    /\ disturbed' = TRUE
    /\ UNCHANGED <<activePosts, files, runs, apiKey, notifiedKeys>>

\* The analysis requests one at a time, with a cache store whose set can
\* fail.
StoreFaultNext ==
    \/ \E r \in FirstSlot :
         \/ VideoStart(r) \/ AnalyzeStart(r) \/ TikTokStart(r)
         \/ CacheChecked(r)
         \/ NewPageSettled(r) \/ InterceptSettled(r) \/ GotoSettled(r)
         \/ ContentSettled(r) \/ CloseSettled(r)
         \/ DownloadSettled(r)
         \/ TtInfoSettled(r) \/ TtDownloadSettled(r)
         \/ AnalysisSettled(r) \/ CacheWritten(r) \/ CacheWriteRejected(r)
         \/ CleanupStep(r)
         \/ NotifierTick(r)
         \/ Retire(r)
    \/ Expire

StoreFaultSpec == Init /\ [][StoreFaultNext]_vars

\* ------------------------------------------------------------------ properties

Finished(r) == req[r].pc = "done"

\* An analysis request that got past the validation of url and contentId.
Validated(q) ==
    q.endpoint \in {"analyze", "tiktok"} /\ q.url # NoUrl /\ q.contentId # ""

\* The request reached the cache lookup.
LookedUp(q) == q.cacheKey # ""

\* An error went back to the caller: through next(error) or an error response.
ErrorSurfaced(q) ==
    \/ q.nexts # <<>>
    \/ \E i \in 1..Len(q.responses) : q.responses[i].status >= 400

Succeeded(q) ==
    /\ q.nexts = <<>>
    /\ Len(q.responses) = 1
    /\ q.responses[1].status = 200

\* The request is inside the browser-fetch phase: after addActivePost and
\* before the end of navigation and content capture.
Fetching(r) == req[r].pc \in {"goto", "content"}

\* C1: every analysis request that passes input validation calls the
\* notifier exactly once in total (updateContent or sendFailureStatus), never
\* zero times and never both, on every exit path.
C1_NotifiedExactlyOnce ==
    \A r \in Slots :
        Validated(req[r]) =>
            /\ Len(req[r].updates) + req[r].failures <= 1
            /\ Finished(r) => Len(req[r].updates) + req[r].failures = 1

\* C2: an analysis request with a contentId that fails after the cache
\* check has called sendFailureStatus by the time the error is surfaced.
C2_FailureStatusSent ==
    \A r \in Slots :
        (Validated(req[r]) /\ LookedUp(req[r]) /\ ErrorSurfaced(req[r]))
            => req[r].failures >= 1

\* C3: in every run of GET /video and POST /analyze the close() calls never
\* exceed the pages acquired, a request acquires at most one page, and when
\* the request ends every acquired page has had its close() call.
C3_PagesClosed ==
    \A r \in Slots :
        /\ req[r].closes <= req[r].newPages
        /\ req[r].newPages <= 1
        /\ Finished(r) => /\ req[r].closes = req[r].newPages
                          /\ req[r].page \in {"none", "closed"}

C3_Witness ==
    \E r \in Slots :
        /\ Finished(r)
        /\ req[r].newPages = 1 /\ req[r].closes = 1
        /\ req[r].nexts # <<>>

\* C4: a request that called addActivePost(postId) eventually leaves the
\* fetch phase having called removeActivePost(postId), and whenever no
\* request is in its fetch phase the tracker holds no post id.
C4_MarkerRemoved ==
    /\ \A r \in Slots : Fetching(r) ~> (~Fetching(r) /\ req[r].removes > 0)
    /\ []((\A r \in Slots : ~Fetching(r)) => activePosts = {})

C4_Witness ==
    \E r \in Slots :
        /\ req[r].pc = "close" /\ req[r].caught
        /\ req[r].adds = 1 /\ req[r].removes = 1
        /\ req[r].postId \notin activePosts

\* C5: at every instant the tracker's active set is exactly the set of posts
\* some request is fetching.
C5_ActiveSetExact ==
    activePosts = {req[r].postId : r \in {s \in Slots : Fetching(s)}}

\* C6: a request whose key is in the cache when it looks it up returns from
\* the cache: it ends with a 200 response without acquiring a page and
\* without calling the extractor, the downloader or the analyzer.
C6_CacheShortCircuit ==
    [][\A r \in Slots :
        /\ (req[r].pc = "idle" /\ req'[r].pc = "cacheCheck")
              => (req'[r].cached.present <=> req'[r].cacheKey \in DOMAIN cache)
        /\ (req[r].pc = "cacheCheck" /\ req[r].cached.present /\ req'[r] # req[r])
              => /\ req'[r].pc = "done"
                 /\ Succeeded(req'[r])
                 /\ req'[r].newPages = 0 /\ req'[r].extracts = 0
                 /\ req'[r].downloads = 0 /\ req'[r].analyses = 0
                 /\ req'[r].created = {}
      ]_vars

C6_Witness ==
    \E r \in Slots :
        /\ Finished(r) /\ req[r].cacheHit
        /\ req[r].newPages = 0 /\ req[r].analyses = 0

C8_CacheWrittenOnSuccess ==
    \A r \in Slots :
        /\ Len(req[r].cacheWrites) <= 1
        /\ (Finished(r) /\ ErrorSurfaced(req[r])) => req[r].cacheWrites = <<>>
        /\ (Finished(r) /\ Succeeded(req[r]) /\ ~req[r].cacheHit)
              => /\ Len(req[r].cacheWrites) = 1
                 /\ req[r].cacheWrites[1].key = req[r].cacheKey
                 /\ req[r].cacheWrites[1].ttl =
                       IF req[r].endpoint = "video" THEN NoExpiry ELSE Ttl(7200)

C8_Witness ==
    \E r \in Slots :
        /\ Finished(r) /\ Succeeded(req[r]) /\ req[r].endpoint = "analyze"
        /\ Len(req[r].cacheWrites) = 1
        /\ req[r].cacheWrites[1].ttl = Ttl(7200)

\* C9: once an Instagram analysis request has ended, and no other request
\* is in progress, none of the temporary files it created is on disk.
C9_TempFilesRemoved ==
    \A r \in Slots :
        (/\ Finished(r)
         /\ req[r].endpoint = "analyze" /\ req[r].platform = "instagram"
         /\ \A s \in Slots \ {r} : req[s].pc = "idle")
            => req[r].created \cap files = {}

\* The page is there and extraction finds no usable media on it.
EmptyMediaSet(html, postId) ==
    /\ ~html.isNotFound /\ ~html.isLoginPage
    /\ ~getAllMediaAssets(html, postId).ok

\* The page holds no media at all, blob: or not.
NoMediaAtAll(html) ==
    /\ \A i \in 1..Len(html.scripts) : \A j \in 1..Len(html.scripts[i]) :
          ItemAssets(html.scripts[i][j].items \o <<html.scripts[i][j].media>>) = <<>>
    /\ html.videoSrc = "" \/ IsBlob(html.videoSrc)
    /\ html.ogVideo = ""

\* The status with which the request failed.
FailedWith(q, status) ==
    IF q.endpoint = "video"
    THEN q.responses = <<>> /\ Len(q.nexts) = 1 /\ q.nexts[1].status = status
    ELSE q.nexts = <<>> /\ Len(q.responses) = 1 /\ q.responses[1].status = status

\* The step in which slot r runs the extractor on the page it fetched.
Extracts(r) == req[r].pc = "close" /\ req'[r].extracts = 1

DownloadAborts(r) ==
    /\ req[r].pc = "download" /\ req'[r] # req[r]
    /\ req'[r].pc \notin {"download", "analyze"}

\* C11: in an Instagram analysis request the analyzer is called only once
\* every extracted asset has its downloaded file, one download at a time; a
\* download that fails ends the request with an error response, without a
\* call of the analyzer, without updateContent and without a cache write.
C11_AllOrNothingDownload ==
    [][\A r \in Slots :
        /\ (req[r].pc = "download" /\ req'[r].pc = "download" /\ req'[r] # req[r])
              => /\ req'[r].downloads = req[r].downloads + 1
                 /\ req'[r].analyses = 0
        /\ (req[r].pc = "download" /\ req'[r].pc = "analyze")
              => /\ req[r].downloads = Len(req[r].mediaAssets)
                 /\ Len(req'[r].downloadedMediaPaths) = Len(req[r].mediaAssets)
                 /\ \A i \in 1..Len(req[r].mediaAssets) :
                       /\ req'[r].downloadedMediaPaths[i].type = req[r].mediaAssets[i].type
                       /\ req'[r].downloadedMediaPaths[i].path \in req'[r].created
        /\ DownloadAborts(r)
              => /\ req'[r].pc = "done"
                 /\ req'[r].analyses = 0
                 /\ req'[r].updates = <<>>
                 /\ req'[r].cacheWrites = <<>>
                 /\ ErrorSurfaced(req'[r])
                 /\ ~Succeeded(req'[r])
      ]_vars

\* The second of two assets failed to download.
C11_Witness ==
    \E r \in Slots :
        /\ Finished(r) /\ req[r].platform = "instagram" /\ req[r].endpoint = "analyze"
        /\ req[r].downloads = 2 /\ req[r].analyses = 0
        /\ req[r].responses = <<[status |-> 500, cached |-> FALSE]>>

HasVideo(paths) == \E i \in 1..Len(paths) : paths[i].type = "video"
HasImage(paths) == \E i \in 1..Len(paths) : paths[i].type = "image"

\* The request of slot r waits for the analysis of files it downloaded.
AnalyzingFiles(r) == req[r].pc = "analyze" /\ req[r].platform \in {"instagram", "tiktok"}

\* C12 as claimed: a single video goes to processVideo, a set of images only
\* (one or several) to processImages, and only a set with both videos and
\* images to processMixedMedia.
C12_RoutedByShape ==
    \A r \in Slots :
        AnalyzingFiles(r) =>
            LET paths == req[r].downloadedMediaPaths
            IN /\ (Len(paths) = 1 /\ HasVideo(paths)) => req[r].analyzer = "processVideo"
               /\ ~HasVideo(paths) => req[r].analyzer = "processImages"
               /\ req[r].analyzer = "processMixedMedia" => HasVideo(paths) /\ HasImage(paths)

\* C12 amended: POST /analyze sends a single video to processVideo, a single
\* image to processImages and every set of two or more assets, whatever
\* their types, to processMixedMedia; POST /tiktok-analyze sends its video to
\* processVideo and its images, one or several, to processImages.
C12_RoutedByCount ==
    \A r \in Slots :
        AnalyzingFiles(r) =>
            LET paths == req[r].downloadedMediaPaths
            IN /\ paths # <<>>
               /\ req[r].platform = "instagram" =>
                     /\ (Len(paths) = 1 /\ HasVideo(paths)) => req[r].analyzer = "processVideo"
                     /\ (Len(paths) = 1 /\ HasImage(paths)) => req[r].analyzer = "processImages"
                     /\ Len(paths) >= 2 => req[r].analyzer = "processMixedMedia"
               /\ req[r].platform = "tiktok" =>
                     /\ ~(HasVideo(paths) /\ HasImage(paths))
                     /\ HasVideo(paths) => Len(paths) = 1 /\ req[r].analyzer = "processVideo"
                     /\ HasImage(paths) => req[r].analyzer = "processImages"

\* Two images of an Instagram post on their way to processMixedMedia.
C12_Witness ==
    \E r \in Slots :
        /\ AnalyzingFiles(r) /\ req[r].platform = "instagram"
        /\ Len(req[r].downloadedMediaPaths) = 2
        /\ ~HasVideo(req[r].downloadedMediaPaths)
        /\ req[r].analyzer = "processMixedMedia"

\* C13: a text that does not parse is never fatal.  For every text the
\* analyze* methods return success with raw_response the text itself, and
\* the parse fallback carries the text; a request whose analysis returned is
\* at its cache write with updateContent called once, whatever the text, and
\* with no failure status, error response or next(error); and whatever text
\* the analyzer answers to a waiting request, the handler goes on to
\* updateContent and the cache write.
C13_ParseFailureNotFatal ==
    /\ \A text \in Texts :
          /\ AnalysisResult(text).success
          /\ AnalysisResult(text).raw_response = text
          /\ ~IsJsonText(text) =>
                AnalysisResult(text).result = [parsed |-> FALSE, raw_response |-> text]
    /\ \A r \in Slots :
          req[r].pc = "cached" =>
              LET a == req[r].cacheWrites[1].value.analysis
              IN /\ Len(req[r].cacheWrites) = 1
                 /\ a.success
                 /\ a.raw_response \in Texts
                 /\ Len(req[r].updates) = 1
                 /\ req[r].failures = 0
                 /\ req[r].responses = <<>> /\ req[r].nexts = <<>>
    /\ \A r \in Slots :
          req[r].pc = "analyze" =>
              \A text \in Texts :
                  LET paths == {req[r].downloadedMediaPaths[i].path :
                                   i \in 1..Len(req[r].downloadedMediaPaths)}
                      n == AfterAnalysis(req[r], TRUE, text, files \cup paths)
                  IN /\ n.pc = "cached"
                     /\ Len(n.updates) = 1 /\ n.failures = 0
                     /\ n.responses = <<>> /\ n.nexts = <<>>
                     /\ Len(n.cacheWrites) = 1
                     /\ n.cacheWrites[1].value.analysis.raw_response = text

\* An answer that is no JSON has gone to the notifier and to the cache.
C13_Witness ==
    \E r \in Slots :
        /\ req[r].pc = "cached"
        /\ ~IsJsonText(req[r].cacheWrites[1].value.analysis.raw_response)
        /\ req[r].cacheWrites[1].value.analysis.raw_response # ""
        /\ req[r].updates = <<req[r].cacheWrites[1].value.analysis.raw_response>>

\* What the handler of a request can do next, over all the answers of the
\* call it is waiting for.
Continuations(rec, onDisk) ==
    CASE rec.pc = "cacheCheck" -> {AfterCacheCheck(rec)}
      [] rec.pc = "newPage" -> {AfterNewPage(rec, ok) : ok \in BOOLEAN}
      [] rec.pc = "intercept" -> {AfterIntercept(rec, ok) : ok \in BOOLEAN}
      [] rec.pc = "goto" -> {AfterGoto(rec, ok) : ok \in BOOLEAN}
      [] rec.pc = "content" ->
            {AfterContent(rec, o[1], o[2]) : o \in BOOLEAN \X Htmls}
      [] rec.pc = "close" -> {AfterClose(rec, ok) : ok \in BOOLEAN}
      [] rec.pc = "download" -> {AfterDownload(rec, o) : o \in DownloadOutcomes}
      [] rec.pc = "ttInfo" -> {AfterTtInfo(rec, info) : info \in TtInfos}
      [] rec.pc = "ttDownload" -> {AfterTtDownload(rec, o) : o \in TtOutcomes}
      [] rec.pc = "analyze" ->
            {AfterAnalysis(rec, o[1], o[2], onDisk) : o \in BOOLEAN \X Texts}
      [] rec.pc = "cached" -> {AfterCacheWrite(rec)}
      [] rec.pc = "cleanup" -> {AfterCleanupStep(rec)}
      [] OTHER -> {}

\* A request's record without the state of the notifier's remote call.
WithoutRemote(rec) == [rec EXCEPT !.remote = "none"]

RemoteStates == {"none", "scheduled", "pending", "sent", "warned"}

\* The step in which the nextTick callback of slot r's notifier starts.
RemoteStarts(r) == req[r].remote = "scheduled" /\ req'[r].remote = "pending"

\* The step in which the remote call of slot r's notifier settles.
RemoteSettles(r) == req[r].remote = "pending" /\ req'[r].remote \in {"sent", "warned"}

\* C14: the response does not depend on the notifier's outcome.  The
\* notifier makes one remote attempt per updateContent/sendFailureStatus
\* call; the step in which that attempt succeeds, fails or times out changes
\* nothing but the notifier's own record; and what the handler does next,
\* responses included, is the same whatever state the remote call is in.
C14_NotifierDetached ==
    /\ [](\A r \in Slots :
            /\ req[r].attempts + (IF req[r].remote = "scheduled" THEN 1 ELSE 0)
                  = Len(req[r].updates) + req[r].failures
            /\ req[r].remote = "none" <=> Len(req[r].updates) + req[r].failures = 0
            /\ \A v \in RemoteStates :
                  {WithoutRemote(n) :
                      n \in Continuations([req[r] EXCEPT !.remote = v], files)}
                      = {WithoutRemote(n) : n \in Continuations(req[r], files)})
    /\ [][\A r \in Slots :
            /\ RemoteSettles(r) =>
                  /\ req' = [req EXCEPT ![r].remote = req'[r].remote]
                  /\ UNCHANGED <<cache, activePosts, files, notifiedKeys>>
            /\ RemoteStarts(r) =>
                  /\ req' = [req EXCEPT ![r] = AfterTick(req[r])]
                  /\ UNCHANGED <<cache, activePosts, files, notifiedKeys>>
            /\ (/\ req[r].pc \notin {"idle", "done"} /\ req'[r] # req[r]
                /\ ~RemoteSettles(r) /\ ~RemoteStarts(r))
                  => req'[r] \in {IF n.pc = "done" THEN Returned(n) ELSE n :
                                     n \in Continuations(req[r], files)}
       ]_vars

\* The remote call of updateContent failed, and the response is the 200 of a
\* successful analysis.
C14_Witness ==
    \E r \in Slots :
        /\ Finished(r) /\ Succeeded(req[r]) /\ ~req[r].cacheHit
        /\ req[r].remote = "warned"
        /\ Len(req[r].updates) = 1

\* An analysis request for a valid URL, with its contentId and the API key in
\* place: it got as far as the cache lookup.
AnalysisOfUrl(q) == Validated(q) /\ LookedUp(q)

C16_EntryReadOnly ==
    [][\A k \in DOMAIN cache : k \in DOMAIN cache' => cache'[k] = cache[k]]_vars

\* Two requests are in the fetch phase of the same post.
BothFetching(r, s) ==
    /\ r # s
    /\ Fetching(r) /\ Fetching(s)
    /\ req[r].postId = req[s].postId

\* A page handle the request holds: opened, and not yet closed.
HoldsPage(r) == req[r].page \in {"open", "closing"}

\* C17: nothing keeps two requests for the same post apart.  Two requests
\* for one post can be in the fetch phase together (the witness), and every
\* request in the fetch phase holds a page it opened itself, whether or not
\* the tracker already held the post when it entered.
C17_NoExclusionPerKey ==
    \A r \in Slots :
        Fetching(r) =>
            /\ req[r].page = "open"
            /\ req[r].newPages = 1 /\ req[r].closes = 0
            /\ req[r].adds = 1

C17_Witness ==
    \E r \in Slots, s \in Slots :
        /\ BothFetching(r, s)
        /\ req[r].page = "open" /\ req[s].page = "open"
        /\ req[r].newPages = 1 /\ req[s].newPages = 1

InProgress(r) == req[r].pc \notin {"idle", "done"}

\* C18: a page is live from newPage() until its close() has settled.  The
\* live pages are never more than the requests in progress: a request has
\* at most one page open, and a request that is over holds none.
C18_PagesBoundedByRequests ==
    /\ Cardinality({r \in Slots : HoldsPage(r)})
          <= Cardinality({r \in Slots : InProgress(r)})
    /\ \A r \in Slots :
          /\ HoldsPage(r) => InProgress(r)
          /\ HoldsPage(r) <=> (req[r].newPages = 1 /\ req[r].page # "closed")
          /\ req[r].newPages <= 1

\* Two live pages for one post: the bound is the number of requests, not of
\* posts.
C18_Witness ==
    \E r \in Slots, s \in Slots :
        /\ r # s
        /\ req[r].postId = req[s].postId /\ req[r].postId # ""
        /\ req[r].page = "closing" /\ HoldsPage(s)

\* An Instagram analysis request that is not answered from the cache.
Pipeline(q) == q.endpoint = "analyze" /\ q.platform = "instagram" /\ ~q.cacheHit

\* C19: the stages of an Instagram analysis run follow one another.  The
\* extractor runs once the page is closed and the post's marker removed; a
\* download starts only after a successful extraction; the analyzer is
\* called only when every asset is downloaded; updateContent is called only
\* when the analyzer has answered; the cache write follows updateContent;
\* the 200 response follows the cache write; on a successful run cleanup
\* comes after the cache write and the response, and the run has been
\* through every stage once.
C19_StagesInOrder ==
    \A r \in Slots :
        Pipeline(req[r]) =>
            /\ req[r].extracts > 0 =>
                  /\ req[r].page = "closed" /\ req[r].closes = 1
                  /\ req[r].removes = 1
            /\ req[r].downloads > 0 => req[r].extracts = 1 /\ req[r].extractErr = 0
            /\ req[r].analyses > 0 => req[r].downloads >= 1
            /\ req[r].pc = "analyze" =>
                  /\ req[r].downloads = Len(req[r].mediaAssets)
                  /\ Len(req[r].downloadedMediaPaths) = Len(req[r].mediaAssets)
            /\ req[r].updates # <<>> => req[r].analyses = 1 /\ req[r].pc # "analyze"
            /\ req[r].cacheWrites # <<>> => Len(req[r].updates) = 1
            /\ Succeeded(req[r]) => Len(req[r].cacheWrites) = 1 /\ req[r].pc # "cached"
            /\ (req[r].pc = "cleanup" /\ ~ErrorSurfaced(req[r]))
                  => Succeeded(req[r]) /\ Len(req[r].cacheWrites) = 1
            /\ (Finished(r) /\ Succeeded(req[r]))
                  => /\ req[r].newPages = 1 /\ req[r].closes = 1
                     /\ req[r].extracts = 1 /\ req[r].downloads >= 1
                     /\ req[r].analyses = 1
                     /\ Len(req[r].updates) = 1 /\ Len(req[r].cacheWrites) = 1
                     /\ req[r].created # {}

\* Cleanup under way at the end of a successful run.
C19_Witness ==
    \E r \in Slots :
        /\ Pipeline(req[r]) /\ req[r].pc = "cleanup" /\ Succeeded(req[r])
        /\ Len(req[r].cacheWrites) = 1 /\ Len(req[r].updates) = 1
        /\ req[r].analyses = 1 /\ req[r].downloads = 2

\* The status the extractor gives to a page without a post, to the login
\* wall and to a page without media.
DomainFailure(html) ==
    html.isNotFound \/ html.isLoginPage \/ NoMediaAtAll(html)

DomainStatus(html) ==
    IF html.isNotFound THEN 404 ELSE IF html.isLoginPage THEN 500 ELSE 404

\* C20: when the extractor fails on a page without a post (404), on the
\* login wall (500) or on a page without media (404), the request ends at
\* once with that status: no download, no analysis, no updateContent and no
\* cache write.
C20_DomainFailureTerminal ==
    [][\A r \in Slots :
        (Extracts(r) /\ DomainFailure(req[r].html))
            => /\ req'[r].pc = "done"
               /\ req'[r].extractErr = DomainStatus(req[r].html)
               /\ FailedWith(req'[r], DomainStatus(req[r].html))
               /\ req'[r].downloads = 0 /\ req'[r].analyses = 0
               /\ req'[r].updates = <<>>
               /\ req'[r].cacheWrites = <<>>
               /\ req'[r].created = {}
               /\ cache' = cache
      ]_vars

\* The login wall, answered with 500 and a failure status.
C20_Witness ==
    \E r \in Slots :
        /\ Finished(r) /\ req[r].endpoint = "analyze"
        /\ req[r].extracts = 1 /\ req[r].extractErr = 500
        /\ req[r].responses = <<[status |-> 500, cached |-> FALSE]>>
        /\ req[r].failures = 1 /\ req[r].updates = <<>>

\* The errors thrown by the handlers' own catch and finally blocks.
HandlerFaults == {TypeError, ReferenceError}

\* C21: in every endpoint handler an error of a collaborator ends in one
\* outcome that carries the error's status (500 without one), and the
\* error-handling blocks raise no error of their own: no request surfaces a
\* second error, none surfaces a fault of a catch or finally block, and a
\* failure of downloadTikTokContent is answered with its status.
C21_ErrorsShapedAtBoundary ==
    \A r \in Slots :
        /\ Len(req[r].nexts) <= 1
        /\ \A i \in 1..Len(req[r].nexts) : req[r].nexts[i] \notin HandlerFaults
        /\ \A i \in 1..Len(req[r].responses) :
              req[r].responses[i].status \in {200, 400, 404, 500}
        /\ Finished(r) => Len(req[r].responses) + Len(req[r].nexts) = 1
        /\ req[r].pc = "ttInfo" =>
              \A info \in TtInfos :
                  TtInfoError(info) # NoErr =>
                      LET out == AfterTtInfo(req[r], info)
                      IN /\ out.nexts = <<>>
                         /\ Len(out.responses) = 1
                         /\ out.responses[1].status = StatusOf(TtInfoError(info))

\* A request that is over has sent its response or handed its error on.
Answered(r) ==
    Finished(r) /\ (req[r].responses # <<>> \/ req[r].nexts # <<>>)

\* C22: under fair scheduling, with collaborators that answer every call,
\* every request in progress eventually is over and has been answered.
C22_EveryRunTerminates ==
    \A r \in Slots : InProgress(r) ~> Answered(r)

\* The notifier calls slot r's request has made.
Tasks(q) == Len(q.updates) + q.failures

\* A notifier task that has been handed to process.nextTick and has not ended.
TaskOpen(r) == req[r].remote \in {"scheduled", "pending"}

TaskEnded(r) == req[r].remote \in {"sent", "warned"}

\* C23: the notifier never hangs or fails its caller.  A task makes at most
\* one remote attempt; the attempt ends as sent on any HTTP status and as a
\* logged warning on a transport error or timeout; its end changes nothing
\* of the request but the notifier's own record; a call of updateContent or
\* sendFailureStatus surfaces no error and leaves the handler where it was;
\* and every task that was scheduled ends.
C23_NotifierNeverHangsOrThrows ==
    /\ [](\A r \in Slots :
            /\ req[r].attempts <= Tasks(req[r])
            /\ TaskEnded(r) => req[r].attempts = Tasks(req[r])
            /\ req[r].remote = "pending" =>
                  \A o \in NotifierOutcomes :
                      LET end == AfterNotifier(req[r], o)
                      IN /\ end.remote = IF o \in {"failed", "timeout"}
                                         THEN "warned" ELSE "sent"
                         /\ end = [req[r] EXCEPT !.remote = end.remote]
            /\ \A c \in Texts :
                  LET u == updateContent(req[r], c)
                      f == sendFailureStatus(req[r])
                  IN /\ u.nexts = req[r].nexts /\ u.responses = req[r].responses
                     /\ u.pc = req[r].pc
                     /\ f.nexts = req[r].nexts /\ f.responses = req[r].responses
                     /\ f.pc = req[r].pc)
    /\ [][\A r \in Slots :
            /\ RemoteSettles(r) => req' = [req EXCEPT ![r].remote = req'[r].remote]
            /\ TaskEnded(r) => (req'[r].remote = req[r].remote \/ req'[r] = IdleReq)
       ]_vars
    /\ \A r \in Slots : TaskOpen(r) ~> TaskEnded(r)

\* A failure status whose remote call timed out or could not be sent: the
\* task has ended with a warning after its one attempt.
C23_Witness ==
    \E r \in Slots :
        /\ Finished(r) /\ req[r].failures = 1
        /\ req[r].remote = "warned" /\ req[r].attempts = 1

\* C30: the remote call of the notifier is not issued inside the handler's
\* current stretch of work.  The step in which the handler calls
\* updateContent or sendFailureStatus leaves the task scheduled with no
\* request sent; the request is sent in a step of the nextTick callback, in
\* which the handler does nothing; and what updateContent returned reports
\* success whatever the remote call does afterwards.
C30_RemoteCallDeferred ==
    /\ [](\A r \in Slots :
            req[r].updates # <<>> => req[r].contentApiResult.success)
    /\ [][\A r \in Slots :
            /\ Tasks(req'[r]) > Tasks(req[r]) =>
                  /\ req'[r].remote = "scheduled"
                  /\ req'[r].attempts = req[r].attempts
            /\ req'[r].attempts > req[r].attempts =>
                  /\ req[r].remote = "scheduled"
                  /\ req' = [req EXCEPT ![r] = AfterTick(req[r])]
            /\ req'[r].contentApiResult # req[r].contentApiResult =>
                  (Tasks(req'[r]) > Tasks(req[r]) \/ req'[r] = IdleReq)
       ]_vars

\* The remote call of an updateContent failed after the handler had its
\* success record and answered from the cache.
C30_Witness ==
    \E r \in Slots :
        /\ Finished(r) /\ req[r].cacheHit
        /\ Len(req[r].updates) = 1 /\ req[r].contentApiResult.success
        /\ req[r].remote = "warned"

\* The validated Instagram post/reel pattern.
MatchesPostPattern(u) ==
    /\ u.scheme = "https" /\ u.host \in IgHosts
    /\ u.seg \in {"p", "reel", "reels"}
    /\ IdPrefix(u.id) # ""

\* A request of a handler that calls getPostId on its url: GET /video, and
\* POST /analyze past its validation with a url that is not a YouTube url.
ParsesPostUrl(q) ==
    /\ ~isYouTubeUrl(q.url)
    /\ q.endpoint = "video" \/ (q.endpoint = "analyze" /\ Validated(q))

\* C24: getPostId returns a non-empty identifier exactly for the urls that
\* match the post/reel pattern; for a missing or malformed url it throws a
\* 400 error and returns nothing, and the request ends there: no cache
\* lookup, no tracker entry, no page.
C24_PostIdOnlyFromValidUrl ==
    \A r \in Slots :
        ParsesPostUrl(req[r]) =>
            LET pid == getPostId(req[r].url)
            IN /\ pid.ok <=> MatchesPostPattern(req[r].url)
               /\ pid.ok => pid.value # "" /\ req[r].postId = pid.value
               /\ ~pid.ok =>
                     /\ pid.err.status = 400 /\ pid.value = ""
                     /\ req[r].pc = "done"
                     /\ req[r].nexts = <<pid.err>> /\ req[r].responses = <<>>
                     /\ req[r].postId = "" /\ req[r].cacheKey = ""
                     /\ req[r].newPages = 0 /\ req[r].adds = 0
                     /\ req[r].extracts = 0 /\ req[r].cacheWrites = <<>>

\* An Instagram url whose last segment does not start with an id character,
\* sent to POST /analyze and rejected.
C24_Witness ==
    \E r \in Slots :
        /\ Finished(r) /\ req[r].endpoint = "analyze"
        /\ req[r].url.scheme = "https" /\ req[r].url.host \in IgHosts
        /\ req[r].url.id = "%2Ftest123"
        /\ Len(req[r].nexts) = 1 /\ req[r].nexts[1].status = 400

\* A list of assets as the claim describes it.
WellFormedAssets(l) ==
    /\ l # <<>>
    /\ \A i \in 1..Len(l) :
          /\ l[i].type \in {"video", "image"}
          /\ l[i].url # "" /\ ~IsBlob(l[i].url)
    /\ \A i, j \in 1..Len(l) : i # j => l[i].url # l[j].url

\* C25: every list getAllMediaAssets returns is non-empty, has no blob: url,
\* no url twice, and only assets of type video or image with a non-empty
\* url: for the page a request is about to extract from, and for the lists
\* GET /video has stored.
C25_AssetListWellFormed ==
    /\ \A r \in Slots :
          (req[r].pc = "close" /\ ~req[r].caught) =>
              LET m == getAllMediaAssets(req[r].html, req[r].postId)
              IN m.ok => WellFormedAssets(m.value)
    /\ \A k \in DOMAIN cache :
          "mediaAssets" \in DOMAIN cache[k].value
              => WellFormedAssets(cache[k].value.mediaAssets)

\* The request holds the carousel page of the extraction test for post
\* test123 and is about to extract from it.
AtCarousel(r) ==
    /\ req[r].pc = "close" /\ ~req[r].caught
    /\ req[r].postId = "test123" /\ req[r].html = CarouselHtml

Videos(l) == SelectSeq(l, LAMBDA a : a.type = "video")
Images(l) == SelectSeq(l, LAMBDA a : a.type = "image")

\* C26 as claimed: the carousel page yields three assets, at least one
\* video and one image, each with a non-empty url that is not a blob: url.
C26_CarouselYieldsThree ==
    \A r \in Slots :
        AtCarousel(r) =>
            LET m == getAllMediaAssets(req[r].html, req[r].postId)
            IN /\ m.ok /\ Len(m.value) = 3
               /\ Videos(m.value) # <<>> /\ Images(m.value) # <<>>
               /\ WellFormedAssets(m.value)

\* C26 amended: the carousel page of the test yields four assets, the image
\* of every item (the video item's own image included) and the video, in
\* item order; the carousel whose video item has no image yields three.
C26_CarouselYieldsFour ==
    \A r \in Slots :
        /\ AtCarousel(r) =>
              LET m == getAllMediaAssets(req[r].html, req[r].postId)
              IN /\ m.ok
                 /\ m.value = << Asset("image", "https://instagram.example.com/img1.jpg"),
                                 Asset("image", "https://instagram.example.com/video1_thumb.jpg"),
                                 Asset("video", "https://instagram.example.com/video1.mp4"),
                                 Asset("image", "https://instagram.example.com/img2.jpg") >>
                 /\ Len(Videos(m.value)) = 1 /\ Len(Images(m.value)) = 3
                 /\ WellFormedAssets(m.value)
        /\ (req[r].pc = "close" /\ ~req[r].caught /\ req[r].postId = "test123"
               /\ req[r].html = PlainCarouselHtml) =>
              LET m == getAllMediaAssets(req[r].html, req[r].postId)
              IN m.ok /\ Len(m.value) = 3 /\ Len(Videos(m.value)) = 1

\* GET /video has answered for the carousel page and stored its four assets.
C26_Witness ==
    \E r \in Slots :
        /\ Finished(r) /\ Succeeded(req[r]) /\ req[r].postId = "test123"
        /\ "test123" \in DOMAIN cache
        /\ Len(cache["test123"].value.mediaAssets) = 4
        /\ Len(Videos(cache["test123"].value.mediaAssets)) = 1

\* The handler answered with an error and made no analysis call.
Aborted(q, status) ==
    /\ q.pc \in {"done", "cleanup"}
    /\ q.nexts = <<>> /\ Len(q.responses) = 1 /\ q.responses[1].status = status
    /\ q.analyses = 0 /\ q.updates = <<>>

\* C27: in POST /tiktok-analyze a failed download of an image of a
\* multi-image post is skipped and the remaining images are still
\* downloaded; after the last item the request goes on to the analysis with
\* the files it got when there is at least one, and aborts with 404 when
\* there is none; a failed video download aborts with 500.
C27_ImageFailureTolerated ==
    /\ [](\A r \in Slots :
            (req[r].pc = "ttDownload" /\ req[r].endpoint = "tiktok") =>
                \A o \in TtOutcomes :
                    LET q     == req[r]
                        i     == q.downloads
                        asset == q.mediaAssets[i]
                        out   == AfterTtDownload(q, o)
                        got   == IF o = "ok" THEN Len(q.downloadedPaths) + 1
                                 ELSE Len(q.downloadedPaths)
                    IN /\ (asset.type = "video" /\ o # "ok") => Aborted(out, 500)
                       /\ (asset.type = "image" /\ i < Len(q.mediaAssets)) =>
                             /\ out.pc = "ttDownload" /\ out.downloads = i + 1
                             /\ Len(out.downloadedPaths) = got
                             /\ out.responses = <<>> /\ out.failures = 0
                       /\ (i = Len(q.mediaAssets) /\ ~(asset.type = "video" /\ o # "ok")) =>
                             IF got > 0
                             THEN /\ out.pc = "analyze" /\ out.responses = <<>>
                                  /\ Len(out.downloadedMediaPaths) = got
                             ELSE Aborted(out, 404))
    /\ [][\A r \in Slots :
            (req[r].pc = "ttDownload" /\ req'[r] # req[r]) =>
                \E o \in TtOutcomes :
                    LET out == AfterTtDownload(req[r], o)
                    IN req'[r] = IF out.pc = "done" THEN Returned(out) ELSE out
       ]_vars

\* A slide show of two images of which one failed to download: the request
\* is at the analysis call with the other one.
C27_Witness ==
    \E r \in Slots :
        /\ req[r].pc = "analyze" /\ req[r].endpoint = "tiktok"
        /\ Len(req[r].mediaAssets) = 2
        /\ Len(req[r].downloadedMediaPaths) = 1
        /\ req[r].analyzer = "processImages"

\* An analysis request answered at the validation of url and contentId.
Rejected(q) ==
    q.endpoint \in {"analyze", "tiktok"} /\ (q.url = NoUrl \/ q.contentId = "")

\* C28: POST /analyze and POST /tiktok-analyze answer 400 when url or
\* contentId is missing, and the rejected request has no side effect: no
\* cache lookup or write, no page, no tracker change, no temp file, no
\* notifier call.
C28_RejectedHasNoEffects ==
    /\ [](\A r \in Slots :
            Rejected(req[r]) =>
                /\ req[r].pc = "done"
                /\ req[r].responses = <<[status |-> 400, cached |-> FALSE]>>
                /\ req[r].nexts = <<>>
                /\ req[r].cacheKey = "" /\ req[r].cacheWrites = <<>>
                /\ req[r].newPages = 0 /\ req[r].adds = 0 /\ req[r].removes = 0
                /\ req[r].created = {} /\ req[r].downloads = 0
                /\ Tasks(req[r]) = 0 /\ req[r].remote = "none" /\ req[r].attempts = 0)
    /\ [][\A r \in Slots :
            (req[r].pc = "idle" /\ Rejected(req'[r])) =>
                UNCHANGED <<cache, activePosts, files, notifiedKeys, runs>>
       ]_vars

\* POST /tiktok-analyze with a url and without contentId, answered 400.
C28_Witness ==
    \E r \in Slots :
        /\ Finished(r) /\ req[r].endpoint = "tiktok"
        /\ req[r].url # NoUrl /\ req[r].contentId = ""
        /\ req[r].responses = <<[status |-> 400, cached |-> FALSE]>>

\* C29: in every analysis run the temporary media files of the run are
\* deleted before the response of the run is sent: once the request has a
\* response, none of the files it created is on disk.
C29_CleanupBeforeResponse ==
    \A r \in Slots :
        (req[r].endpoint \in {"analyze", "tiktok"} /\ req[r].responses # <<>>)
            => req[r].created \cap files = {}

\* The value was stored by GET /video: mediaAssets and primaryUrl.
VideoShaped(value) == "primaryUrl" \in DOMAIN value

\* C31: the cache keys of different endpoints never collide: the entry a
\* GET /video request finds under its key was stored by GET /video, and the
\* entry an analysis request finds under its key was stored by an analysis
\* endpoint, so no handler reads a payload of the other shape.
C31_KeysNeverCollide ==
    \A r \in Slots :
        (req[r].pc = "cacheCheck" /\ req[r].cached.present) =>
            /\ req[r].endpoint = "video" => VideoShaped(req[r].cached.value)
            /\ req[r].endpoint # "video" => HasAnalysis(req[r].cached.value)

\* The temporary files slot r's request has downloaded and has not yet
\* finished analyzing.
HeldFiles(r) ==
    IF req[r].pc \in {"download", "analyze"}
    THEN {req[r].downloadedPaths[i].path : i \in 1..Len(req[r].downloadedPaths)}
    ELSE {}

\* C32: concurrent analysis requests do not interfere through temporary
\* files: a file a request has downloaded and still needs is on disk (no
\* cleanup of another request has deleted it) and is not a file another
\* request in progress has downloaded too (no download has written over it).
C32_NoTempFileInterference ==
    \A r \in Slots :
        /\ HeldFiles(r) \subseteq files
        /\ \A s \in Slots \ {r} : HeldFiles(r) \cap HeldFiles(s) = {}

\* The outcomes slot r's request has produced: responses sent and errors
\* forwarded with next(error).
Outcomes(r) == Len(req[r].responses) + Len(req[r].nexts)

\* C33: every GET /video and POST /analyze request is answered exactly once:
\* at no moment has it produced more than one outcome (a response and a
\* forwarded error, or two forwarded errors), and once it is over it has
\* produced one.
C33_AnsweredExactlyOnce ==
    \A r \in Slots :
        req[r].endpoint \in {"video", "analyze"} =>
            /\ Outcomes(r) <= 1
            /\ Finished(r) => Outcomes(r) = 1

\* C34: a request removes an in-flight marker only if it added it: at every
\* moment the removeActivePost calls of a request are no more than its
\* addActivePost calls, so a request that fails before marking removes
\* nothing.
C34_RemovesOnlyOwnMarker ==
    \A r \in Slots : req[r].removes <= req[r].adds

\* The text a cache hit on value hands to the notifier, for a request of
\* the given platform.
HitPayload(platform, value) ==
    CachedPayload([IdleReq EXCEPT !.platform = platform,
                                  !.cached = [present |-> TRUE, value |-> value]])

\* C35: the text handed to the notifier on a cache hit equals the text the
\* populating run handed to it: when a run has notified and stored its
\* result, a hit on the stored value yields the text that run has just sent.
C35_HitPayloadEqualsStored ==
    \A r \in Slots :
        req[r].pc = "cached" =>
            LET w == req[r].cacheWrites[Len(req[r].cacheWrites)]
            IN HitPayload(req[r].platform, w.value) = req[r].updates[Len(req[r].updates)]

\* Slot r's request has sent an error response.
ErrorAnswered(r) ==
    \E i \in 1..Len(req[r].responses) : req[r].responses[i].status # 200

\* C36: the notification and the response of an analysis request agree: a
\* request that has issued a success notification (updateContent) has sent no
\* error response, and once it is over its response is the 200; this also
\* when the cache write fails after the notifier was scheduled.
C36_NotificationAgreesWithResponse ==
    \A r \in Slots :
        (req[r].endpoint \in {"analyze", "tiktok"} /\ req[r].updates # <<>>) =>
            /\ ~ErrorAnswered(r)
            /\ Finished(r) => Len(req[r].responses) = 1

\* The responses GET /video has sent with status 200: each is the object it
\* stored under the post id.
VideoResponses == {cache[k].value : k \in {j \in DOMAIN cache : VideoShaped(cache[j].value)}}

\* The positions of the videos in a list of assets.
VideoAt(l) == {i \in 1..Len(l) : l[i].type = "video"}

\* C37: in a successful GET /video response primaryUrl is not null, is the
\* url of a member of mediaAssets, and is the url of the first video of
\* mediaAssets when there is a video and of the first asset otherwise.
C37_PrimaryUrlIsFirstVideo ==
    \A resp \in VideoResponses :
        LET l == resp.mediaAssets
            p == resp.primaryUrl
        IN /\ ~p.isNull
           /\ \E i \in 1..Len(l) : l[i].url = p.url
           /\ VideoAt(l) # {} =>
                 \E i \in VideoAt(l) : (\A j \in VideoAt(l) : i <= j) /\ p.url = l[i].url
           /\ VideoAt(l) = {} => p.url = l[1].url

\* A GET /video request has answered 200 for a post whose first asset is an
\* image and whose primaryUrl is the url of a video further down the list.
C37_Witness ==
    \E r \in Slots :
        /\ Finished(r) /\ req[r].endpoint = "video" /\ ~req[r].cacheHit
        /\ req[r].responses = <<[status |-> 200, cached |-> FALSE]>>
        /\ req[r].cacheKey \in DOMAIN cache
        /\ LET resp == cache[req[r].cacheKey].value
           IN /\ resp.mediaAssets[1].type = "image"
              /\ \E i \in VideoAt(resp.mediaAssets) :
                    i > 1 /\ resp.primaryUrl = Str(resp.mediaAssets[i].url)
              /\ resp.primaryUrl.url # resp.mediaAssets[1].url

====
